---- MODULE Spec2Model ----
(***************************************************************************)
(* A model of mercury-cli: the HTTP transport's retry loop (Client.Do),    *)
(* the pagination driver (fetchAll and the --all branch of a generated     *)
(* command) and the command generator (AddOpenAPICommands).                *)
(*                                                                         *)
(* The three parts are independent state machines over disjoint variables; *)
(* each has its own specification (SpecDo, SpecPag, SpecGen) in which the   *)
(* variables of the other two parts stay at their idle values.             *)
(***************************************************************************)
EXTENDS Integers, Sequences, FiniteSets, TLC

VARIABLES
    \* ---- Client.Do (internal/mercuryhttp) ----
    method,              \* req.Method
    retryNonIdempotent,  \* c.opts.RetryNonIdempotent
    attempt,             \* the loop variable of Do
    doPc,                \* "idle" | "send" | "backoff" | "returned"
    attempts,            \* log: the outcome of every c.http.Do(req) call so far
    ctxDone,             \* whether req.Context() is done (cancelled or expired)
    lastErr,             \* the local lastErr of Do ("" is nil)
    doResult,            \* the *Result returned by Do (NoResult is nil)
    doErr,               \* the error returned by Do ("" is nil)
    waitOver,            \* whether the timer of time.After(sleep) has fired
    reqBody,             \* the reqBody argument: the bytes of the request body
    getBody,             \* whether req.GetBody is set
    bodyPos,             \* how many bytes of req.Body have been read
    bodiesSent,          \* log: the bytes req.Body had left to give, per attempt
    \* ---- fetchAll and the --all branch of RunE (internal/cligen) ----
    plan,                \* the *paginationPlan of the command
    initialQuery,        \* q built from the flags, handed to fetchAll
    maxPagesFlag,        \* *maxPages (--max-pages)
    sleepMS,             \* *sleepMS (--sleep-ms)
    ndjson,              \* rt.Printer.NDJSONEnabled()
    served,              \* log: the outcome of every call of do so far
    serverLoops,         \* environment: the server answers every call alike
    pagPc,               \* "idle" | "start" | "fetch" | "sleep" | "returned" | "done"
    maxPages,            \* the local maxPages of fetchAll (after the default)
    q,                   \* the query map fetchAll mutates: [shared, v]
    offset,              \* the local offset of fetchAll
    page,                \* the loop variable of fetchAll
    res,                 \* *paginationResult being accumulated
    fetchRet,            \* what fetchAll returned: [hasRes, res, err]
    sent,                \* log: the query of every call of do so far
    sleeps,              \* log: number of calls of do made before each time.Sleep
    sleepOver,           \* whether the time of the time.Sleep under way has passed
    cancelledAt,         \* calls of do made when cmd.Context() was cancelled (-1: not)
    stdout,              \* everything written to the primary output stream
    stderr,              \* everything written to the diagnostic stream
    runErr,              \* the error RunE returned ("" is nil)
    \* ---- AddOpenAPICommands (internal/cligen) ----
    docs,                \* the []*openapi.SpecDoc handed to the generator
    genPc,               \* "idle" | "ready" | "done"
    iterOrder,           \* the map iteration orders the run happened to see
    rootCmds,            \* root's generated children: <<[group, tag, cmds]>>
    genErr,              \* the error AddOpenAPICommands returned (NoErr is nil)
    \* ---- kebabCase (internal/cligen) ----
    ident,               \* the identifier handed to kebabCase
    kebabPc,             \* "idle" | "ready" | "done"
    kebabOut,            \* kebabCase(ident)
    kebabAgain,          \* kebabCase(kebabCase(ident))
    \* ---- retryBackoff (internal/cligen/url.go) ----
    retryAfter,          \* resp.Header.Get("Retry-After") ("" when absent)
    nowMs,               \* the clock when retryBackoff runs, in ms of the day
    boAttempt,           \* the attempt argument
    boPc,                \* "call" | "done"
    boSleep,             \* the time.Duration returned: an int64 of nanoseconds
    \* ---- a generated command (internal/cligen/openapi_cmds.go) ----
    cmdOp,               \* the operation the command was generated from
    inv,                 \* the command line: arguments, flags, body flags, --all
    rt,                  \* the Runtime: Token and Auth
    runPc,               \* "start" | "sent" | "all" | "done"
    requests,            \* log: the requests handed to Client.Do by RunE's do(q)
    answer,              \* what Client.Do returned to do, and how the print went
    tmpl,                \* under --all: the request do builds, but for the query
    \* ---- schema resolution and detectPaginationPlan ----
    schDoc,              \* spec.Components.Schemas
    schEntry,            \* the schema handed to DerefSchema and FlattenSchema
    schOrder,            \* the order the ranges over property maps take
    schQuery,            \* the names of the operation's query parameters
    schPc,               \* "idle" | "ready" | "done"
    derefOut,            \* what DerefSchema returned
    flatOut,             \* what FlattenSchema returned
    planOut              \* what detectPaginationPlan returned (NoPlan is nil)

doVars == <<method, retryNonIdempotent, attempt, doPc, attempts, ctxDone,
            lastErr, doResult, doErr, waitOver, reqBody, getBody, bodyPos,
            bodiesSent>>
pagVars == <<plan, initialQuery, maxPagesFlag, sleepMS, ndjson, served, serverLoops,
             pagPc, maxPages, q, offset, page, res, fetchRet, sent, sleeps,
             sleepOver, cancelledAt, stdout, stderr, runErr>>
genVars == <<docs, genPc, iterOrder, rootCmds, genErr>>
kebabVars == <<ident, kebabPc, kebabOut, kebabAgain>>
boVars == <<retryAfter, nowMs, boAttempt, boPc, boSleep>>
runVars == <<cmdOp, inv, rt, runPc, requests, answer, tmpl>>
pagCore == <<plan, initialQuery, maxPagesFlag, sleepMS, ndjson, served, serverLoops,
             pagPc, maxPages, q, offset, page, res, fetchRet, sent, sleeps,
             sleepOver, cancelledAt>>
pagCoreButWait == <<plan, initialQuery, maxPagesFlag, sleepMS, ndjson, served,
                    serverLoops, pagPc, maxPages, q, offset, page, res, fetchRet,
                    sent, sleeps>>
schVars == <<schDoc, schEntry, schOrder, schQuery, schPc, derefOut, flatOut, planOut>>
vars == <<doVars, pagVars, genVars, kebabVars, boVars, runVars, schVars>>

\* What each part leaves alone: the variables of the other parts.
doOthers == <<pagVars, genVars, kebabVars, boVars, runVars, schVars>>
pagOthers == <<doVars, genVars, kebabVars, boVars, runVars, schVars>>
genOthers == <<doVars, pagVars, kebabVars, boVars, runVars, schVars>>
kebabOthers == <<doVars, pagVars, genVars, boVars, runVars, schVars>>
boOthers == <<doVars, pagVars, genVars, kebabVars, runVars, schVars>>
runOthers == <<doVars, genVars, kebabVars, boVars, schVars>>
schOthers == <<doVars, pagVars, genVars, kebabVars, boVars, runVars>>

(***************************************************************************)
(* Generic helpers.                                                        *)
(***************************************************************************)
Max(a, b) == IF a >= b THEN a ELSE b

Last(s) == s[Len(s)]

RECURSIVE Concat(_)
\* Concat(<<s1, ..., sn>>) = s1 \o ... \o sn
Concat(ss) == IF ss = <<>> THEN <<>> ELSE Head(ss) \o Concat(Tail(ss))

(***************************************************************************)
(* ---------------------------- Client.Do -------------------------------- *)
(***************************************************************************)

\* The keys of PathItem.Operations(): the only methods a generated command sends.
Methods == {"GET", "HEAD", "PUT", "DELETE", "OPTIONS", "POST", "PATCH"}

\* strings.ToUpper on a method name.
ToUpper(m) ==
    CASE m = "get" -> "GET"
      [] m = "head" -> "HEAD"
      [] m = "put" -> "PUT"
      [] m = "delete" -> "DELETE"
      [] m = "options" -> "OPTIONS"
      [] m = "post" -> "POST"
      [] m = "patch" -> "PATCH"
      [] OTHER -> m

StatusTooManyRequests == 429

\* Statuses the server is let to answer with: both sides of each threshold.
Statuses == {200, 404, 429, 499, 500, 503}

\* Errors c.http.Do can fail with (no response at all).
NetErrors == {"connection refused", "i/o timeout"}
\* The error io.ReadAll(resp.Body) can fail with.
ReadErrors == {"unexpected EOF"}
CtxError == "context canceled"

\* A nil *Result.
NoResult == [isNil |-> TRUE, Status |-> 0]

\* const maxAttempts, one too many.
maxAttemptsPlusOne == 5 + 1

maxAttempts == 5

shouldRetryAnyMethod(status, m, rni) ==
    status = StatusTooManyRequests \/ status >= 500

shouldRetryOnly5xx(status, m, rni) ==
    IF status >= 500
    THEN IF ToUpper(m) \in {"GET", "HEAD", "PUT", "DELETE", "OPTIONS"} THEN TRUE ELSE rni
    ELSE FALSE

shouldRetry(status, m, rni) ==
    IF status = StatusTooManyRequests \/ status >= 500
    THEN IF ToUpper(m) \in {"GET", "HEAD", "PUT", "DELETE", "OPTIONS"} THEN TRUE ELSE rni
    ELSE FALSE

\* return nil, e
DoReturnErr(e) ==
    /\ doPc' = "returned"
    /\ doResult' = NoResult
    /\ doErr' = e

\* The code after the loop: lastErr defaults to "request failed".
DoAfterLoop(le) == DoReturnErr(IF le = "" THEN "request failed" ELSE le)

\* err != nil after c.http.Do, handled as if the response were retryable.
OnTransportErrorRetry(e) ==
    /\ lastErr' = e
    /\ IF attempt < maxAttempts
       THEN /\ doPc' = "backoff"
            /\ UNCHANGED <<doResult, doErr>>
       ELSE DoAfterLoop(e)

\* err != nil after c.http.Do: lastErr = err; break.
OnTransportError(e) ==
    /\ lastErr' = e
    /\ DoAfterLoop(e)

\* readErr != nil: return nil, readErr.
OnReadError(e) ==
    /\ DoReturnErr(e)
    /\ UNCHANGED lastErr

\* A response whose body was read in full.
OnResponse(status) ==
    /\ UNCHANGED lastErr
    /\ IF shouldRetry(status, method, retryNonIdempotent) /\ attempt < maxAttempts
       THEN /\ doPc' = "backoff"
            /\ UNCHANGED <<doResult, doErr>>
       ELSE /\ doPc' = "returned"
            /\ doResult' = [isNil |-> FALSE, Status |-> status]
            /\ doErr' = ""

\* The request bodies do hands to Do: none, or two bytes.
Bodies == { <<>>, <<"x", "y">> }

\* The top of the loop body, without the reset of the body reader.
RewindBodyNone(att, gb, rb, pos) == pos

\* The top of the loop body: on every attempt after the first, req.Body is taken
\* anew from req.GetBody (which, as do sets it, never fails) or, without GetBody,
\* from reqBody when that is not empty.  The result is the reader's position.
RewindBody(att, gb, rb, pos) ==
    IF att > 1
    THEN IF gb THEN 0
         ELSE IF Len(rb) > 0 THEN 0 ELSE pos
    ELSE pos

\* c.http.Do(req) transmits what req.Body has left to give and reads some or all
\* of it before the attempt ends.
Transmit ==
    LET pos == RewindBody(attempt, getBody, reqBody, bodyPos)
    IN  /\ bodiesSent' = Append(bodiesSent, SubSeq(reqBody, pos + 1, Len(reqBody)))
        /\ bodyPos' \in pos..Len(reqBody)

DoInit ==
    /\ method \in Methods
    /\ reqBody \in Bodies
    /\ getBody = (reqBody # <<>>)
    /\ bodyPos = 0
    /\ bodiesSent = <<>>
    /\ waitOver = FALSE
    /\ retryNonIdempotent \in BOOLEAN
    /\ attempt = 1
    /\ doPc = "send"
    /\ attempts = <<>>
    /\ ctxDone = FALSE
    /\ lastErr = ""
    /\ doResult = NoResult
    /\ doErr = ""

DoIdle ==
    /\ method = "GET"
    /\ reqBody = <<>>
    /\ getBody = FALSE
    /\ bodyPos = 0
    /\ bodiesSent = <<>>
    /\ waitOver = FALSE
    /\ retryNonIdempotent = FALSE
    /\ attempt = 1
    /\ doPc = "idle"
    /\ attempts = <<>>
    /\ ctxDone = FALSE
    /\ lastErr = ""
    /\ doResult = NoResult
    /\ doErr = ""

\* One pass of the loop body up to the backoff: c.http.Do(req), io.ReadAll and the
\* retry decision.  A request whose context is already done gets no response.
SendFails ==
    /\ UNCHANGED doOthers
    /\ doPc = "send"
    /\ \E e \in NetErrors \cup (IF ctxDone THEN {CtxError} ELSE {}) :
          /\ attempts' = Append(attempts, [kind |-> "neterr", err |-> e])
          /\ OnTransportError(e)
    /\ Transmit
    /\ UNCHANGED <<method, retryNonIdempotent, attempt, ctxDone, waitOver, reqBody,
                   getBody>>

ReadFails ==
    /\ UNCHANGED doOthers
    /\ doPc = "send"
    /\ ~ctxDone
    /\ \E s \in Statuses, e \in ReadErrors :
          /\ attempts' = Append(attempts, [kind |-> "readerr", status |-> s, err |-> e])
          /\ OnReadError(e)
    /\ Transmit
    /\ UNCHANGED <<method, retryNonIdempotent, attempt, ctxDone, waitOver, reqBody,
                   getBody>>

Respond ==
    /\ UNCHANGED doOthers
    /\ doPc = "send"
    /\ ~ctxDone
    /\ \E s \in Statuses :
          /\ attempts' = Append(attempts, [kind |-> "resp", status |-> s])
          /\ OnResponse(s)
    /\ Transmit
    /\ waitOver' = FALSE
    /\ UNCHANGED <<method, retryNonIdempotent, attempt, ctxDone, reqBody, getBody>>

\* Environment: the timer of time.After(sleep) fires.
WaitElapses ==
    /\ UNCHANGED doOthers
    /\ doPc = "backoff"
    /\ ~waitOver
    /\ waitOver' = TRUE
    /\ UNCHANGED <<method, retryNonIdempotent, attempt, doPc, attempts, ctxDone,
                   lastErr, doResult, doErr, reqBody, getBody, bodyPos, bodiesSent>>

\* case <-time.After(sleep): continue  (attempt++ and the loop condition).
BackoffElapsed ==
    /\ UNCHANGED doOthers
    /\ doPc = "backoff"
    /\ waitOver
    /\ attempt' = attempt + 1
    /\ IF attempt + 1 <= maxAttempts
       THEN /\ doPc' = "send"
            /\ UNCHANGED <<doResult, doErr>>
       ELSE DoAfterLoop(lastErr)
    /\ UNCHANGED <<method, retryNonIdempotent, attempts, ctxDone, lastErr, waitOver,
                   reqBody, getBody, bodyPos, bodiesSent>>

\* A select without the ctx.Done() case: a cancelled wait is waited out and the
\* loop goes on.
BackoffWaitedOut ==
    /\ UNCHANGED doOthers
    /\ doPc = "backoff"
    /\ ctxDone
    /\ attempt' = attempt + 1
    /\ doPc' = "send"
    /\ UNCHANGED <<method, retryNonIdempotent, attempts, ctxDone, lastErr, doResult,
                   doErr, waitOver, reqBody, getBody, bodyPos, bodiesSent>>

\* case <-ctx.Done(): return nil, ctx.Err()
BackoffCancelled ==
    /\ UNCHANGED doOthers
    /\ doPc = "backoff"
    /\ ctxDone
    /\ DoReturnErr(CtxError)
    /\ UNCHANGED <<method, retryNonIdempotent, attempt, attempts, ctxDone, lastErr,
                   waitOver, reqBody, getBody, bodyPos, bodiesSent>>

\* Environment: the caller cancels the request's context, or its deadline expires.
CtxCancel ==
    /\ UNCHANGED doOthers
    /\ doPc \in {"send", "backoff"}
    /\ ~ctxDone
    /\ ctxDone' = TRUE
    /\ UNCHANGED <<method, retryNonIdempotent, attempt, doPc, attempts, lastErr,
                   doResult, doErr, waitOver, reqBody, getBody, bodyPos, bodiesSent>>

DoNext ==
    \/ SendFails
    \/ ReadFails
    \/ Respond
    \/ WaitElapses
    \/ BackoffElapsed
    \/ BackoffCancelled
    \/ CtxCancel

(***************************************************************************)
(* ------------------------- strings and JSON ---------------------------- *)
(* A Go string is a sequence of one-character strings, so that parsing and *)
(* formatting are computed; a JSON scalar is a record [t, s, n]: its JSON  *)
(* type, its text when a string, its value when a number.                  *)
(***************************************************************************)
Digits == <<"0", "1", "2", "3", "4", "5", "6", "7", "8", "9">>

IsDigit(c) == \E i \in 1..Len(Digits) : Digits[i] = c

DigitVal(c) == (CHOOSE i \in 1..Len(Digits) : Digits[i] = c) - 1

RECURSIVE DigitsVal(_, _)
\* The value of the decimal digits ds, after the accumulated value acc.
DigitsVal(ds, acc) ==
    IF ds = <<>> THEN acc ELSE DigitsVal(Tail(ds), acc * 10 + DigitVal(Head(ds)))

\* strconv.Atoi: an optional sign and at least one decimal digit.
Atoi(s) ==
    LET signed == s # <<>> /\ Head(s) \in {"+", "-"}
        ds == IF signed THEN Tail(s) ELSE s
    IN  IF ds = <<>> \/ \E i \in 1..Len(ds) : ~IsDigit(ds[i])
        THEN [ok |-> FALSE, val |-> 0]
        ELSE [ok |-> TRUE,
              val |-> IF signed /\ Head(s) = "-" THEN 0 - DigitsVal(ds, 0)
                      ELSE DigitsVal(ds, 0)]

RECURSIVE NatDigits(_)
NatDigits(n) ==
    IF n < 10 THEN <<Digits[n + 1]>> ELSE Append(NatDigits(n \div 10), Digits[(n % 10) + 1])

\* strconv.Itoa
Itoa(n) == IF n < 0 THEN <<"-">> \o NatDigits(0 - n) ELSE NatDigits(n)

JAbsent == [t |-> "absent", s |-> <<>>, n |-> 0]
JNull == [t |-> "null", s |-> <<>>, n |-> 0]
JStr(s) == [t |-> "string", s |-> s, n |-> 0]
JNum(n) == [t |-> "number", s |-> <<>>, n |-> n]

\* stringField without its nil check: fmt.Sprint(nil) is "<nil>".
stringFieldNoNilCheck(v) ==
    CASE v.t = "absent" -> <<>>
      [] v.t = "null" -> <<"<", "n", "i", "l", ">">>
      [] v.t = "string" -> v.s
      [] OTHER -> Itoa(v.n)

\* stringField applied to the value found under the field (JAbsent: no such key).
\* fmt.Sprint of a float64 holding an integer prints its decimal digits.
stringField(v) ==
    CASE v.t \in {"absent", "null"} -> <<>>
      [] v.t = "string" -> v.s
      [] OTHER -> Itoa(v.n)

\* cursorNextToken: obj["page"] must be an object; then its "nextPage".
cursorNextToken(obj) ==
    IF obj.page.t # "object" THEN <<>> ELSE stringField(obj.page.nextPage)

\* intFromAny applied to a decoded JSON value: a number is a float64 (truncated),
\* a string goes through Atoi, anything else is 0.
intFromAny(v) ==
    CASE v.t = "number" -> v.n
      [] v.t = "string" -> (IF Atoi(v.s).ok THEN Atoi(v.s).val ELSE 0)
      [] OTHER -> 0

(***************************************************************************)
(* url.Values: a function from the keys present to their value lists.      *)
(***************************************************************************)
ValuesGet(v, k) == IF k \in DOMAIN v /\ v[k] # <<>> THEN v[k][1] ELSE <<>>

ValuesSet(v, k, x) == [y \in DOMAIN v \cup {k} |-> IF y = k THEN <<x>> ELSE v[y]]

\* A "copy" that shares the caller's map.
cloneValuesShared(v) == [shared |-> TRUE, v |-> v]

\* cloneValues: a fresh map with a copy of every value list.
cloneValues(v) == [shared |-> FALSE, v |-> [k \in DOMAIN v |-> v[k]]]

(***************************************************************************)
(* ------------------------------ fetchAll ------------------------------- *)
(***************************************************************************)
DefaultMaxPages == 1000

\* Most calls of do the environment answers with a freely chosen outcome.
MaxFetches == 3

\* The three plans detectPaginationPlan builds.
Plans ==
    { [mode |-> "cursor", queryParam |-> "start_after", itemField |-> "accounts",
       nextTokenField |-> "page.nextPage", totalField |-> ""],
      [mode |-> "pageToken", queryParam |-> "page_token", itemField |-> "records",
       nextTokenField |-> "next_page_token", totalField |-> ""],
      [mode |-> "offset", queryParam |-> "offset", itemField |-> "transactions",
       nextTokenField |-> "", totalField |-> "total"] }

\* The decoded response object, by what fetchAll reads of it: `item` is
\* obj[plan.itemField], `page` is obj["page"], `token` is obj[plan.nextTokenField]
\* (page-token mode) and `total` is obj[plan.totalField].
ItemArrays == { <<>>, <<"a">>, <<"b", "a">> }
ItemValues ==
    { [t |-> "absent", a |-> <<>>], [t |-> "string", a |-> <<>>] }
    \cup { [t |-> "array", a |-> a] : a \in ItemArrays }
Tokens == { JAbsent, JNull, JStr(<<>>), JStr(<<"t", "1">>), JStr(<<"t", "2">>) }
PageValues ==
    { [t |-> "absent", nextPage |-> JAbsent], [t |-> "string", nextPage |-> JAbsent] }
    \cup { [t |-> "object", nextPage |-> tok] : tok \in Tokens }
Totals == { JAbsent, JNum(0), JNum(1), JNum(2), JNum(3), JStr(<<"2">>) }

NoPage == [t |-> "absent", nextPage |-> JAbsent]
NoObj == [item |-> [t |-> "absent", a |-> <<>>], page |-> NoPage, token |-> JAbsent,
          total |-> JAbsent]

\* The objects a server can answer with under plan p.  A field the code does not
\* read in p's mode, or does not get to read because the item field is bad, is
\* left absent.
Objects(p) ==
    LET bad == { [NoObj EXCEPT !.item = iv] : iv \in {v \in ItemValues : v.t # "array"} }
        arr == {v \in ItemValues : v.t = "array"}
    IN  bad \cup
        CASE p.mode = "cursor" ->
               { [NoObj EXCEPT !.item = iv, !.page = pv] : iv \in arr, pv \in PageValues }
          [] p.mode = "pageToken" ->
               { [NoObj EXCEPT !.item = iv, !.token = tv] : iv \in arr, tv \in Tokens }
          [] OTHER ->
               { [NoObj EXCEPT !.item = iv, !.total = tv] : iv \in arr, tv \in Totals }

\* The outcomes of one call of do: Client.Do fails (k = "err"), the final status is
\* >= 400 (k = "http"), or a result comes back whose body is not JSON
\* (body = "invalid"), JSON but no object (body = "nonobject") or an object.
Outcomes(p) ==
    { [k |-> "err", status |-> 0, err |-> "connection refused", body |-> "", obj |-> NoObj],
      [k |-> "http", status |-> 404, err |-> "", body |-> "", obj |-> NoObj],
      [k |-> "ok", status |-> 200, err |-> "", body |-> "invalid", obj |-> NoObj],
      [k |-> "ok", status |-> 200, err |-> "", body |-> "nonobject", obj |-> NoObj] }
    \cup { [k |-> "ok", status |-> 200, err |-> "", body |-> "object", obj |-> o] :
             o \in Objects(p) }

\* What do returns once the context of the command is cancelled: the transport
\* gives up the request before it is written.
CancelledOutcome ==
    [k |-> "err", status |-> 0, err |-> "context canceled", body |-> "", obj |-> NoObj]

\* A server that ignores the query and answers every call with the same one-item
\* page that asks for more.
LoopingOutcome(p) ==
    [k |-> "ok", status |-> 200, err |-> "", body |-> "object",
     obj |-> [NoObj EXCEPT !.item = [t |-> "array", a |-> <<"a">>],
                           !.page = [t |-> "object", nextPage |-> JStr(<<"t", "1">>)],
                           !.token = JStr(<<"t", "1">>)]]

\* &paginationResult{}: no items, a nil LastObject (NoObj), a nil FirstTotal.
EmptyRes == [Items |-> <<>>, LastObject |-> NoObj, FirstTotal |-> JAbsent,
             LastStatus |-> 0, LastHeaders |-> 0]

ErrExceeded == "pagination exceeded --max-pages"

\* The query maps RunE can hand to fetchAll: --limit is always given; the plan's
\* own parameter is not given, or given with a value.
InitialQueries(p) ==
    LET base == ("limit" :> << <<"5">> >>)
        vals == IF p.mode = "offset"
                THEN { <<"2">>, <<"-", "1">>, <<"x">> }
                ELSE { <<"t", "0">> }
    IN  {base} \cup { (p.queryParam :> <<x>>) @@ base : x \in vals }

PagInit ==
    /\ plan \in Plans
    /\ maxPagesFlag \in {-1, 0, 1, 2}
    /\ sleepMS \in {0, 5}
    /\ ndjson \in BOOLEAN
    /\ initialQuery \in InitialQueries(plan)
    /\ serverLoops \in BOOLEAN
    /\ serverLoops => /\ sleepMS = 0
                      /\ ~ndjson
                      /\ DOMAIN initialQuery = {"limit"}
                      /\ maxPagesFlag \in {0, 2}
    /\ served = <<>>
    /\ pagPc = "start"
    /\ maxPages = maxPagesFlag
    /\ q = [shared |-> TRUE, v |-> initialQuery]
    /\ offset = 0
    /\ page = 0
    /\ res = EmptyRes
    /\ fetchRet = [hasRes |-> FALSE, res |-> EmptyRes, err |-> ""]
    /\ sent = <<>>
    /\ sleeps = <<>>
    /\ sleepOver = FALSE
    /\ cancelledAt = -1
    /\ stdout = <<>>
    /\ stderr = <<>>
    /\ runErr = ""

PagIdle ==
    /\ plan = CHOOSE p \in Plans : p.mode = "cursor"
    /\ maxPagesFlag = 0
    /\ sleepMS = 0
    /\ ndjson = FALSE
    /\ initialQuery = ("limit" :> << <<"5">> >>)
    /\ serverLoops = FALSE
    /\ served = <<>>
    /\ pagPc = "idle"
    /\ maxPages = 0
    /\ q = [shared |-> TRUE, v |-> initialQuery]
    /\ offset = 0
    /\ page = 0
    /\ res = EmptyRes
    /\ fetchRet = [hasRes |-> FALSE, res |-> EmptyRes, err |-> ""]
    /\ sent = <<>>
    /\ sleeps = <<>>
    /\ sleepOver = FALSE
    /\ cancelledAt = -1
    /\ stdout = <<>>
    /\ stderr = <<>>
    /\ runErr = ""

\* if maxPages <= 0 { maxPages = 1000 }, without the default.
EffectiveMaxPagesNoDefault(mp) == mp

\* if maxPages <= 0 { maxPages = 1000 }
EffectiveMaxPages(mp) == IF mp <= 0 THEN DefaultMaxPages ELSE mp

\* fetchAll up to its loop: the default cap, the private query copy, the empty
\* result and the initial offset.  (RunE never passes a nil plan or a nil map.)
StartAll ==
    /\ UNCHANGED pagOthers
    /\ pagPc = "start"
    /\ maxPages' = EffectiveMaxPages(maxPagesFlag)
    /\ q' = cloneValues(initialQuery)
    /\ res' = EmptyRes
    /\ offset' = (IF plan.mode = "offset"
                  THEN LET v == ValuesGet(initialQuery, plan.queryParam)
                       IN  IF v # <<>> /\ Atoi(v).ok /\ Atoi(v).val >= 0
                           THEN Atoi(v).val ELSE 0
                  ELSE 0)
    /\ page' = 1
    /\ IF 1 <= EffectiveMaxPages(maxPagesFlag)
       THEN /\ pagPc' = "fetch"
            /\ UNCHANGED fetchRet
       ELSE /\ pagPc' = "returned"
            /\ fetchRet' = [hasRes |-> TRUE, res |-> EmptyRes, err |-> ErrExceeded]
    /\ UNCHANGED <<plan, initialQuery, maxPagesFlag, sleepMS, ndjson, served,
                   serverLoops, sent, sleeps, sleepOver, cancelledAt, stdout,
                   stderr, runErr>>

\* return r, e from fetchAll (hasRes tells a nil result from a result).
FetchAllReturn(hasRes, r, e) ==
    /\ pagPc' = "returned"
    /\ fetchRet' = [hasRes |-> hasRes, res |-> r, err |-> e]

\* page++ and the loop condition; past the cap: return res, "pagination exceeded".
LoopNext(r) ==
    /\ page' = page + 1
    /\ IF page + 1 <= maxPages
       THEN /\ pagPc' = "fetch"
            /\ UNCHANGED fetchRet
       ELSE FetchAllReturn(TRUE, r, ErrExceeded)

\* The end of the loop body: if sleep > 0 { time.Sleep(sleep) }.
EndOfBody(r) ==
    IF sleepMS > 0
    THEN /\ pagPc' = "sleep"
         /\ sleeps' = Append(sleeps, Len(sent) + 1)
         /\ UNCHANGED <<page, fetchRet>>
    ELSE /\ LoopNext(r)
         /\ UNCHANGED sleeps

\* q.Set(plan.queryParam, x), on whichever map q is.
QSet(qv, x) ==
    /\ q' = [q EXCEPT !.v = ValuesSet(qv, plan.queryParam, x)]
    /\ initialQuery' = (IF q.shared THEN ValuesSet(qv, plan.queryParam, x)
                        ELSE initialQuery)

QKeep(qv) ==
    /\ q' = [q EXCEPT !.v = qv]
    /\ initialQuery' = (IF q.shared THEN qv ELSE initialQuery)


\* res.Items = append(res.Items, items...), the wrong way round.
AppendItemsPrepend(acc, items) == items \o acc

\* res.Items = append(res.Items, items...)
AppendItems(acc, items) == acc \o items

\* offset += len(items), counting a page as one.
AdvanceOffsetByPage(off, n) == off + 1

\* offset += len(items)
AdvanceOffset(off, n) == off + n

\* The offset mode's stop rule, without the zero-items stop and with > for >=.
OffsetStopsStrict(off, total, n) == total > 0 /\ off > total

\* The offset mode's stop rule, after offset += len(items):
\* total > 0 && offset >= total, or len(items) == 0.
OffsetStops(off, total, n) == (total > 0 /\ off >= total) \/ n = 0

\* What do prints before it fails: PrintHTTPError writes the status line (and the
\* body) to the diagnostic stream; a failed Client.Do prints nothing.
DoPrints(o) ==
    IF o.k = "http" THEN Append(stderr, <<"HTTP", o.status>>) ELSE stderr

\* The error of a page that cannot be used ("" when it can): do failed, the body
\* is not JSON, not an object, or has no array under plan.itemField.
PageError(o) ==
    CASE o.k = "err" -> o.err
      [] o.k = "http" -> "HTTP error status"
      [] o.body = "invalid" -> "parse JSON response"
      [] o.body = "nonobject" -> "unexpected JSON response type"
      [] o.obj.item.t = "absent" -> "response missing item field"
      [] o.obj.item.t # "array" -> "response item field is not an array"
      [] OTHER -> ""

\* A page that cannot be used is skipped and the loop goes on.
OnBadPageSkip(qv, o) ==
    /\ QKeep(qv)
    /\ EndOfBody(res)
    /\ UNCHANGED <<res, offset>>

\* A page that cannot be used: return nil, err.
OnBadPage(qv, o) ==
    /\ FetchAllReturn(FALSE, EmptyRes, PageError(o))
    /\ QKeep(qv)
    /\ UNCHANGED <<res, offset, page, sleeps>>

\* A usable page: accumulate, then the mode's advance-or-stop rule.
OnGoodPage(qv, o, reqNo) ==
    LET obj == o.obj
        items == obj.item.a
        r1 == [res EXCEPT !.LastStatus = o.status, !.LastHeaders = reqNo,
                          !.Items = AppendItems(res.Items, items),
                          !.LastObject = obj]
    IN  CASE plan.mode = "cursor" ->
               LET next == cursorNextToken(obj)
               IN  /\ res' = r1
                   /\ UNCHANGED offset
                   /\ IF next = <<>>
                      THEN /\ FetchAllReturn(TRUE, r1, "")
                           /\ QKeep(qv)
                           /\ UNCHANGED <<page, sleeps>>
                      ELSE /\ QSet(qv, next)
                           /\ EndOfBody(r1)
          [] plan.mode = "pageToken" ->
               LET next == stringField(obj.token)
               IN  /\ res' = r1
                   /\ UNCHANGED offset
                   /\ IF next = <<>>
                      THEN /\ FetchAllReturn(TRUE, r1, "")
                           /\ QKeep(qv)
                           /\ UNCHANGED <<page, sleeps>>
                      ELSE /\ QSet(qv, next)
                           /\ EndOfBody(r1)
          [] OTHER ->
               LET r2 == IF r1.FirstTotal.t \in {"absent", "null"}
                         THEN [r1 EXCEPT !.FirstTotal = obj.total] ELSE r1
                   off1 == AdvanceOffset(offset, Len(items))
                   total == intFromAny(obj.total)
               IN  /\ res' = r2
                   /\ offset' = off1
                   /\ QKeep(qv)
                   /\ IF OffsetStops(off1, total, Len(items))
                      THEN /\ FetchAllReturn(TRUE, r2, "")
                           /\ UNCHANGED <<page, sleeps>>
                      ELSE EndOfBody(r2)

\* One pass of the loop body: the offset is written into q, do(q) is called and
\* answered by the environment, and the page is handled up to the sleep.
FetchPage ==
    /\ UNCHANGED pagOthers
    /\ pagPc = "fetch"
    /\ LET qv == IF plan.mode = "offset"
                 THEN ValuesSet(q.v, plan.queryParam, Itoa(offset)) ELSE q.v
       IN  \E o \in (IF cancelledAt >= 0 THEN {CancelledOutcome}
                     ELSE IF serverLoops THEN {LoopingOutcome(plan)}
                     ELSE IF Len(sent) < MaxFetches THEN Outcomes(plan) ELSE {}) :
              /\ sent' = Append(sent, qv)
              /\ served' = Append(served, o)
              /\ stderr' = DoPrints(o)
              /\ IF PageError(o) # ""
                 THEN OnBadPage(qv, o)
                 ELSE OnGoodPage(qv, o, Len(sent) + 1)
    /\ UNCHANGED <<plan, maxPagesFlag, sleepMS, ndjson, serverLoops, maxPages,
                   sleepOver, cancelledAt, stdout, runErr>>

\* The environment: the time of the time.Sleep under way passes.
SleepElapses ==
    /\ UNCHANGED pagOthers
    /\ pagPc = "sleep"
    /\ ~sleepOver
    /\ sleepOver' = TRUE
    /\ UNCHANGED <<pagCoreButWait, cancelledAt, stdout, stderr, runErr>>

\* The environment: the context of the command is cancelled while fetchAll is
\* in time.Sleep, before its time has passed.
CancelDuringSleep ==
    /\ UNCHANGED pagOthers
    /\ pagPc = "sleep"
    /\ ~sleepOver
    /\ cancelledAt < 0
    /\ cancelledAt' = Len(sent)
    /\ UNCHANGED <<pagCoreButWait, sleepOver, stdout, stderr, runErr>>

\* time.Sleep(sleep) returns when its time has passed, and not before; then
\* page++ and the loop condition.
SleepDone ==
    /\ UNCHANGED pagOthers
    /\ pagPc = "sleep"
    /\ sleepOver
    /\ sleepOver' = FALSE
    /\ LoopNext(res)
    /\ UNCHANGED <<plan, initialQuery, maxPagesFlag, sleepMS, ndjson, served,
                   serverLoops, maxPages, q, offset, res, sent, sleeps,
                   cancelledAt, stdout, stderr, runErr>>

\* The body RunE prints for a merged result: the last object with the item field
\* replaced by all items and, in offset mode, the total by the first total.
MergedBody(r) ==
    LET o1 == [r.LastObject EXCEPT !.item = [t |-> "array", a |-> r.Items]]
    IN  IF plan.mode = "offset" /\ plan.totalField # ""
           /\ r.FirstTotal.t \notin {"absent", "null"}
        THEN [o1 EXCEPT !.total = r.FirstTotal]
        ELSE o1

ErrWrite == "write: broken pipe"

\* What a write to the primary output can do: take everything, take a part
\* and fail, or fail at once.
WriteResults == {"ok", "short", "fail"}

\* The writes ws made in order to the primary output under w: all of them; or
\* all but the last, of which a part is written before the error; or none.
WriteAll(ws, w) ==
    IF ws = <<>> \/ w = "ok" THEN [out |-> ws, err |-> ""]
    ELSE IF w = "short"
    THEN [out |-> SubSeq(ws, 1, Len(ws) - 1) \o << <<"part", Last(ws)>> >>,
          err |-> ErrWrite]
    ELSE [out |-> <<>>, err |-> ErrWrite]

\* What RunE writes to the primary output after fetchAll: nothing when fetchAll
\* failed; else one line per item (--ndjson) or the merged body.  PrintHTTP gets a
\* nil body and so writes nothing there (--status and --headers are off).
WritesAfterFetchAll(ret) ==
    IF ret.err # "" THEN <<>>
    ELSE IF ndjson THEN [i \in 1..Len(ret.res.Items) |-> <<"line", ret.res.Items[i]>>]
    ELSE << <<"body", MergedBody(ret.res)>> >>

\* The rest of RunE after fetchAll returned.
FinishAll ==
    /\ UNCHANGED pagOthers
    /\ pagPc = "returned"
    /\ \E w \in WriteResults :
          LET r == WriteAll(WritesAfterFetchAll(fetchRet), w)
          IN  /\ runErr' = (IF fetchRet.err # "" THEN fetchRet.err ELSE r.err)
              /\ stdout' = stdout \o r.out
    /\ pagPc' = "done"
    /\ UNCHANGED <<plan, initialQuery, maxPagesFlag, sleepMS, ndjson, served,
                   serverLoops, maxPages, q, offset, page, res, fetchRet, sent,
                   sleeps, sleepOver, cancelledAt, stderr>>

PagNext ==
    \/ StartAll
    \/ FetchPage
    \/ SleepElapses
    \/ CancelDuringSleep
    \/ SleepDone
    \/ FinishAll

(***************************************************************************)
(* ------------------------- naming and paths ---------------------------- *)
(***************************************************************************)
\* The characters the model's identifiers and paths are written with, and their
\* code points ("é" stands for the non-ASCII letters).
Code ==
    (" " :> 32) @@ ("-" :> 45) @@ ("/" :> 47) @@ ("1" :> 49) @@
    ("A" :> 65) @@ ("B" :> 66) @@ ("E" :> 69) @@ ("G" :> 71) @@ ("O" :> 79) @@
    ("P" :> 80) @@ ("S" :> 83) @@ ("T" :> 84) @@ ("X" :> 88) @@ ("_" :> 95) @@
    ("a" :> 97) @@ ("b" :> 98) @@ ("c" :> 99) @@ ("d" :> 100) @@ ("i" :> 105) @@
    ("m" :> 109) @@ ("p" :> 112) @@ ("q" :> 113) @@ ("s" :> 115) @@ ("x" :> 120) @@
    ("{" :> 123) @@ ("}" :> 125) @@ ("é" :> 233) @@
    ("%" :> 37) @@ ("0" :> 48) @@ ("2" :> 50) @@ ("5" :> 53) @@ ("7" :> 55) @@
    (":" :> 58) @@ ("F" :> 70) @@ ("I" :> 73) @@ ("e" :> 101) @@ ("f" :> 102) @@
    ("k" :> 107) @@ ("l" :> 108) @@ ("o" :> 111) @@ ("r" :> 114) @@ ("t" :> 116) @@
    ("v" :> 118) @@ ("z" :> 122)

Chr(n) == CHOOSE c \in DOMAIN Code : Code[c] = n

RECURSIVE LessStr(_, _)
\* s < t for Go strings: bytewise lexical order.
LessStr(s, t) ==
    CASE t = <<>> -> FALSE
      [] s = <<>> -> TRUE
      [] Code[Head(s)] # Code[Head(t)] -> Code[Head(s)] < Code[Head(t)]
      [] OTHER -> LessStr(Tail(s), Tail(t))

IsSpace(c) == c = " "

RECURSIVE TrimLeftSpace(_)
TrimLeftSpace(s) == IF s # <<>> /\ IsSpace(Head(s)) THEN TrimLeftSpace(Tail(s)) ELSE s

RECURSIVE TrimRightSpace(_)
TrimRightSpace(s) ==
    IF s # <<>> /\ IsSpace(Last(s)) THEN TrimRightSpace(SubSeq(s, 1, Len(s) - 1)) ELSE s

\* strings.TrimSpace
TrimSpace(s) == TrimRightSpace(TrimLeftSpace(s))

\* categorize: ASCII lower, upper, digit; everything else, non-ASCII letters
\* included, is catOther.
categorize(r) ==
    CASE Code[r] >= Code["a"] /\ Code[r] <= 122 -> "catLower"
      [] Code[r] >= Code["A"] /\ Code[r] <= 90 -> "catUpper"
      [] Code[r] >= 48 /\ Code[r] <= 57 -> "catDigit"
      [] OTHER -> "catOther"

\* unicode.ToLower on an ASCII upper-case letter.
ToLowerRune(r) == Chr(Code[r] + (Code["a"] - Code["A"]))

RECURSIVE TrimDashes(_)
\* strings.Trim(out, "-")
TrimDashes(s) ==
    IF s # <<>> /\ Head(s) = "-" THEN TrimDashes(Tail(s))
    ELSE IF s # <<>> /\ Last(s) = "-" THEN TrimDashes(SubSeq(s, 1, Len(s) - 1))
    ELSE s

RECURSIVE CollapseDashes(_)
\* strings.ReplaceAll(out, "--", "-") until no "--" is left.
CollapseDashes(s) ==
    IF Len(s) < 2 THEN s
    ELSE IF s[1] = "-" /\ s[2] = "-" THEN CollapseDashes(Tail(s))
    ELSE <<Head(s)>> \o CollapseDashes(Tail(s))

RECURSIVE KebabLoop(_, _, _, _)
\* The rune loop of kebabCase: b is the builder, prevDash and prevCat its flags.
KebabLoop(s, b, prevDash, prevCat) ==
    IF s = <<>> THEN b
    ELSE LET r == Head(s)
             cat == categorize(r)
         IN  IF cat \in {"catLower", "catUpper", "catDigit"}
             THEN LET b1 == IF b # <<>> /\ ~prevDash /\ cat = "catUpper"
                               /\ prevCat \in {"catLower", "catDigit"}
                            THEN Append(b, "-") ELSE b
                      r1 == IF cat = "catUpper" THEN ToLowerRune(r) ELSE r
                  IN  KebabLoop(Tail(s), Append(b1, r1), FALSE, cat)
             ELSE IF b # <<>> /\ ~prevDash
                  THEN KebabLoop(Tail(s), Append(b, "-"), TRUE, cat)
                  ELSE KebabLoop(Tail(s), b, prevDash, cat)

\* kebabCase without lower-casing and camelCase splitting: separators only.
kebabCaseKeepCase(s0) ==
    LET s == TrimSpace(s0)
        keep == [i \in 1..Len(s) |->
                   IF categorize(s[i]) = "catOther" THEN "-" ELSE s[i]]
    IN  IF s = <<>> THEN <<>> ELSE CollapseDashes(TrimDashes(keep))

kebabCase(s0) ==
    LET s == TrimSpace(s0)
    IN  IF s = <<>> THEN <<>>
        ELSE CollapseDashes(TrimDashes(KebabLoop(s, <<>>, FALSE, "catOther")))

\* strings.IndexByte(s, c), 0-based, -1 when c is not in s.
IndexByte(s, c) ==
    IF \E k \in 1..Len(s) : s[k] = c
    THEN (CHOOSE k \in 1..Len(s) : s[k] = c /\ \A l \in 1..(k - 1) : s[l] # c) - 1
    ELSE -1

RECURSIVE ExtractFrom(_, _, _)
\* The loop of extractPathParams, at 0-based index i with the names found so far.
ExtractFrom(path, i, out) ==
    IF i >= Len(path) THEN out
    ELSE IF path[i + 1] # "{" THEN ExtractFrom(path, i + 1, out)
    ELSE LET j == IndexByte(SubSeq(path, i + 1, Len(path)), "}")
         IN  IF j <= 1 THEN ExtractFrom(path, i + 1, out)
             ELSE ExtractFrom(path, i + j + 1,
                              Append(out, SubSeq(path, i + 2, i + j)))

extractPathParams(path) == ExtractFrom(path, 0, <<>>)

-----------------------------------------------------------------------------
\* retryBackoff (internal/cligen/url.go).  A time.Duration is an int64 count of
\* nanoseconds; the model writes an int64 as its eight bytes, least significant
\* first, in two's complement, so that products wrap as they do in Go.

Limbs == 8
LimbBase == 256

Zero64 == [i \in 1..Limbs |-> 0]

RECURSIVE NatLimbs(_, _)
NatLimbs(n, i) ==
    IF i > Limbs THEN <<>> ELSE <<n % LimbBase>> \o NatLimbs(n \div LimbBase, i + 1)

\* int64(n) for a small natural number n.
FromNat(n) == NatLimbs(n, 1)

RECURSIVE MulLimbs(_, _, _, _)
MulLimbs(x, k, i, carry) ==
    IF i > Limbs THEN <<>>
    ELSE LET v == x[i] * k + carry
         IN  <<v % LimbBase>> \o MulLimbs(x, k, i + 1, v \div LimbBase)

RECURSIVE MulCarry(_, _, _, _)
MulCarry(x, k, i, carry) ==
    IF i > Limbs THEN carry ELSE MulCarry(x, k, i + 1, (x[i] * k + carry) \div LimbBase)

\* x * k + d on 64 bits: the wrapped product, and what was carried out of it.
MulAdd64(x, k, d) == [val |-> MulLimbs(x, k, 1, d), carry |-> MulCarry(x, k, 1, d)]

\* The Go product x * k of an int64 and a small constant: it wraps silently.
Mul64(x, k) == MulLimbs(x, k, 1, 0)

IsNeg64(x) == x[Limbs] >= LimbBase \div 2

\* -x on 64 bits.
Neg64(x) == MulLimbs([i \in 1..Limbs |-> LimbBase - 1 - x[i]], 1, 1, 1)

Abs64(x) == IF IsNeg64(x) THEN Neg64(x) ELSE x

RECURSIVE DivLimbs(_, _, _, _)
DivLimbs(x, k, i, rem) ==
    IF i < 1 THEN <<>>
    ELSE LET cur == rem * LimbBase + x[i]
         IN  DivLimbs(x, k, i - 1, cur % k) \o <<cur \div k>>

RECURSIVE DivRem(_, _, _, _)
DivRem(x, k, i, rem) ==
    IF i < 1 THEN rem ELSE DivRem(x, k, i - 1, (rem * LimbBase + x[i]) % k)

\* Quotient and remainder of a non-negative int64 by a small constant.
Div64(x, k) == [quo |-> DivLimbs(x, k, Limbs, 0), rem |-> DivRem(x, k, Limbs, 0)]

DigitValue(c) == CHOOSE d \in 0..9 : Digits[d + 1] = c

\* strconv.Atoi on a 64-bit int: an optional sign and decimal digits; a value out
\* of the range of int64 is an error (ErrRange).  The value is kept as sign and
\* magnitude.
RECURSIVE AtoiDigits(_, _)
AtoiDigits(ds, acc) ==
    IF ~acc.ok \/ ds = <<>> THEN acc
    ELSE LET m == MulAdd64(acc.mag, 10, DigitValue(Head(ds)))
         IN  AtoiDigits(Tail(ds), [ok |-> m.carry = 0, mag |-> m.val])

Atoi64(s) ==
    LET signed == s # <<>> /\ Head(s) \in {"+", "-"}
        neg == signed /\ Head(s) = "-"
        ds == IF signed THEN Tail(s) ELSE s
        r == IF ds = <<>> \/ \E i \in 1..Len(ds) : ~IsDigit(ds[i])
             THEN [ok |-> FALSE, mag |-> Zero64]
             ELSE AtoiDigits(ds, [ok |-> TRUE, mag |-> Zero64])
        fits == ~IsNeg64(r.mag) \/ (neg /\ r.mag = Neg64(r.mag))
    IN  [ok |-> r.ok /\ fits, neg |-> neg /\ r.mag # Zero64, mag |-> r.mag]

\* http.ParseTime.  The dates of the model fall on one day and are written by
\* their time of day, hh:mm:ss; the result is the second of that day.
ParseTime(s) ==
    IF /\ Len(s) = 8
       /\ s[3] = ":" /\ s[6] = ":"
       /\ \A i \in {1, 2, 4, 5, 7, 8} : IsDigit(s[i])
       /\ DigitValue(s[1]) * 10 + DigitValue(s[2]) < 24
       /\ DigitValue(s[4]) < 6 /\ DigitValue(s[7]) < 6
    THEN [ok |-> TRUE,
          sec |-> (DigitValue(s[1]) * 10 + DigitValue(s[2])) * 3600
                  + (DigitValue(s[4]) * 10 + DigitValue(s[5])) * 60
                  + DigitValue(s[7]) * 10 + DigitValue(s[8])]
    ELSE [ok |-> FALSE, sec |-> 0]

\* A whole number of milliseconds as a time.Duration.
Millis(ms) ==
    IF ms < 0 THEN Neg64(Mul64(Mul64(FromNat(0 - ms), 1000), 1000))
    ELSE Mul64(Mul64(FromNat(ms), 1000), 1000)

\* time.Duration(secs) * time.Second
Seconds(secs) == Mul64(Mul64(Mul64(secs, 1000), 1000), 1000)

Pow2(n) == IF n = 0 THEN 1 ELSE IF n = 1 THEN 2 ELSE IF n = 2 THEN 4 ELSE 8

\* base * (1 << (attempt - 1)), capped at 5 s; in milliseconds.
ExpBackoffMs(att) ==
    LET d == 200 * Pow2(att - 1) IN IF d > 5000 THEN 5000 ELSE d

\* The values of rand.Int63n(int64(d)) the model draws, in milliseconds: the
\* least, the middle and the last whole millisecond of [0, d).
JitterDraws(d) == {0, d \div 2, d - 1}

\* retryBackoff(resp, attempt), with r the value drawn for the jitter.
retryBackoff(ra, att, now, r) ==
    LET a == Atoi64(TrimSpace(ra))
        t == ParseTime(ra)
        d == ExpBackoffMs(att)
    IN  IF ra # <<>> /\ a.ok /\ ~a.neg
        THEN Seconds(a.mag)
        ELSE IF ra # <<>> /\ t.ok /\ t.sec * 1000 - now > 0
        THEN Millis(t.sec * 1000 - now)
        ELSE Millis(d + (r - d \div 2))

\* The Retry-After values of the model: none, integers of seconds (also the
\* largest whose nanoseconds fit an int64, the next one, one whose nanoseconds
\* wrap past zero, a negative one, one beyond int64), a word, and two dates.
RetryAfters ==
    { <<>>,
      <<"0">>, <<"3">>, <<"-", "5">>, <<"x">>,
      <<"9", "2", "2", "3", "3", "7", "2", "0", "3", "6">>,
      <<"9", "2", "2", "3", "3", "7", "2", "0", "3", "7">>,
      <<"1", "8", "4", "4", "6", "7", "4", "4", "0", "7", "4">>,
      <<"9", "9", "9", "9", "9", "9", "9", "9", "9", "9",
        "9", "9", "9", "9", "9", "9", "9", "9", "9", "9">>,
      <<"0", "0", ":", "0", "0", ":", "0", "5">>,
      <<"0", "0", ":", "0", "1", ":", "3", "0">> }

\* The clock at the call: 1.5 s and 61 s into the day.
Clocks == {1500, 61000}

BoInit ==
    /\ retryAfter \in RetryAfters
    /\ nowMs \in Clocks
    /\ boAttempt \in 1..(maxAttempts - 1)
    /\ boPc = "call"
    /\ boSleep = Zero64

BoIdle ==
    /\ retryAfter = <<>>
    /\ nowMs = 0
    /\ boAttempt = 1
    /\ boPc = "done"
    /\ boSleep = Zero64

\* sleep := retryBackoff(resp, attempt)
CallRetryBackoff ==
    /\ UNCHANGED boOthers
    /\ boPc = "call"
    /\ \E r \in JitterDraws(ExpBackoffMs(boAttempt)) :
          boSleep' = retryBackoff(retryAfter, boAttempt, nowMs, r)
    /\ boPc' = "done"
    /\ UNCHANGED <<retryAfter, nowMs, boAttempt>>

BoNext == CallRetryBackoff

-----------------------------------------------------------------------------
\* A generated command, from the command line to the request and the output
\* (buildOperationCmd and its RunE, internal/cligen/openapi_cmds.go).

RECURSIVE HasPrefix(_, _)
\* strings.HasPrefix
HasPrefix(s, pre) ==
    IF pre = <<>> THEN TRUE
    ELSE IF s = <<>> THEN FALSE
    ELSE Head(s) = Head(pre) /\ HasPrefix(Tail(s), Tail(pre))

RECURSIVE ReplaceAll(_, _, _)
\* strings.ReplaceAll(s, old, new), for a non-empty old.
ReplaceAll(s, old, new) ==
    IF s = <<>> THEN <<>>
    ELSE IF HasPrefix(s, old)
    THEN new \o ReplaceAll(SubSeq(s, Len(old) + 1, Len(s)), old, new)
    ELSE <<Head(s)>> \o ReplaceAll(Tail(s), old, new)

\* strings.Cut(s, "="): what is before the first "=", what is after, and whether
\* there is one.
Cut(s) ==
    LET i == IndexByte(s, "=")
    IN  IF i < 0 THEN [k |-> s, v |-> <<>>, ok |-> FALSE]
        ELSE [k |-> SubSeq(s, 1, i), v |-> SubSeq(s, i + 2, Len(s)), ok |-> TRUE]

\* %XX of the characters the escapers of net/url replace.
PercentCode(c) ==
    CASE c = " " -> <<"%", "2", "0">>
      [] c = "%" -> <<"%", "2", "5">>
      [] c = "/" -> <<"%", "2", "F">>
      [] OTHER -> <<c>>

RECURSIVE PathEscape(_)
\* url.PathEscape: of the characters of the model, letters, digits, "-" and "_"
\* stay, and " ", "%" and "/" are written %20, %25 and %2F.
PathEscape(s) ==
    IF s = <<>> THEN <<>> ELSE PercentCode(Head(s)) \o PathEscape(Tail(s))

RECURSIVE EscapedPath(_)
\* URL.EscapedPath of a URL whose Path was assigned and whose RawPath is empty
\* (joinBaseAndPath): "/" stays, " " and "%" are written %20 and %25.
EscapedPath(s) ==
    IF s = <<>> THEN <<>>
    ELSE (IF Head(s) = "/" THEN <<"/">> ELSE PercentCode(Head(s)))
         \o EscapedPath(Tail(s))

RECURSIVE PathUnescape(_)
\* url.PathUnescape, as the server reads the path of the request line.
PathUnescape(s) ==
    IF s = <<>> THEN <<>>
    ELSE IF Len(s) >= 3 /\ SubSeq(s, 1, 3) = <<"%", "2", "0">>
    THEN <<" ">> \o PathUnescape(SubSeq(s, 4, Len(s)))
    ELSE IF Len(s) >= 3 /\ SubSeq(s, 1, 3) = <<"%", "2", "5">>
    THEN <<"%">> \o PathUnescape(SubSeq(s, 4, Len(s)))
    ELSE IF Len(s) >= 3 /\ SubSeq(s, 1, 3) = <<"%", "2", "F">>
    THEN <<"/">> \o PathUnescape(SubSeq(s, 4, Len(s)))
    ELSE <<Head(s)>> \o PathUnescape(Tail(s))

\* The alphabet of base64.StdEncoding.
B64 ==
    <<"A", "B", "C", "D", "E", "F", "G", "H", "I", "J", "K", "L", "M", "N", "O", "P",
      "Q", "R", "S", "T", "U", "V", "W", "X", "Y", "Z", "a", "b", "c", "d", "e", "f",
      "g", "h", "i", "j", "k", "l", "m", "n", "o", "p", "q", "r", "s", "t", "u", "v",
      "w", "x", "y", "z", "0", "1", "2", "3", "4", "5", "6", "7", "8", "9", "+", "/">>

RECURSIVE EncodeBytes(_)
\* base64.StdEncoding.EncodeToString on a sequence of bytes.
EncodeBytes(bs) ==
    IF bs = <<>> THEN <<>>
    ELSE IF Len(bs) = 1
    THEN <<B64[(bs[1] \div 4) + 1], B64[(bs[1] % 4) * 16 + 1], "=", "=">>
    ELSE IF Len(bs) = 2
    THEN <<B64[(bs[1] \div 4) + 1],
           B64[(bs[1] % 4) * 16 + (bs[2] \div 16) + 1],
           B64[(bs[2] % 16) * 4 + 1], "=">>
    ELSE <<B64[(bs[1] \div 4) + 1],
           B64[(bs[1] % 4) * 16 + (bs[2] \div 16) + 1],
           B64[(bs[2] % 16) * 4 + (bs[3] \div 64) + 1],
           B64[(bs[3] % 64) + 1]>> \o EncodeBytes(SubSeq(bs, 4, Len(bs)))

\* []byte(s)
Bytes(s) == [i \in 1..Len(s) |-> Code[s[i]]]

\* applyAuth without the scheme switch: Bearer whatever the scheme.
applyAuthBearerOnly(token, scheme) == <<"B", "e", "a", "r", "e", "r", " ">> \o token

\* applyAuth (internal/mercuryhttp): the value of the Authorization header.
applyAuth(token, scheme) ==
    IF scheme = "basic"
    THEN <<"B", "a", "s", "i", "c", " ">> \o EncodeBytes(Bytes(token \o <<":">>))
    ELSE <<"B", "e", "a", "r", "e", "r", " ">> \o token

\* The parameter names of the model, spelled out for kebabCase.
Spell ==
    ("start_after" :> <<"s", "t", "a", "r", "t", "_", "a", "f", "t", "e", "r">>) @@
    ("offset" :> <<"o", "f", "f", "s", "e", "t">>) @@
    ("limit" :> <<"l", "i", "m", "i", "t">>) @@
    ("as_of" :> <<"a", "s", "_", "o", "f">>) @@
    ("X-Id" :> <<"X", "-", "I", "d">>)

Param(name, in, required, kind) ==
    [Name |-> name, In |-> in, Required |-> required, kind |-> kind]

NoPlan ==
    [mode |-> "none", queryParam |-> "", itemField |-> "", nextTokenField |-> "",
     totalField |-> ""]

NoBody == [declared |-> FALSE, required |-> FALSE, cts |-> <<>>]

\* Operation.Security: nil when the operation has no security key, else the
\* list of its requirements, which can be empty.
NilSecurity == [nil |-> TRUE, list |-> <<>>]
SecurityList(l) == [nil |-> FALSE, list |-> l]

\* OperationRequiresAuth with the two lists taken together: an operation-level
\* list overrides the document's only when it is not empty.
OperationRequiresAuthEither(docSec, opSec) == Len(opSec.list) > 0 \/ Len(docSec) > 0

\* Spec.OperationRequiresAuth: operation-level security overrides the
\* document's.
OperationRequiresAuth(docSec, opSec) ==
    IF ~opSec.nil THEN Len(opSec.list) > 0 ELSE Len(docSec) > 0

\* The operations of the model: two paginated lists, a read with a required
\* query parameter and a header parameter, and a write with two path parameters
\* and a request body.
OpList ==
    [method |-> "GET", path |-> <<"/", "l">>,
     params |-> <<Param("start_after", "query", FALSE, "string"),
                  Param("limit", "query", FALSE, "int")>>,
     body |-> NoBody, requiresAuth |-> TRUE, security |-> NilSecurity,
     docSecurity |-> <<"bearerAuth">>,
     plan |-> CHOOSE p \in Plans : p.mode = "cursor"]

OpTx ==
    [method |-> "GET", path |-> <<"/", "x">>,
     params |-> <<Param("offset", "query", FALSE, "int")>>,
     body |-> NoBody, requiresAuth |-> TRUE, security |-> NilSecurity,
     docSecurity |-> <<"bearerAuth">>,
     plan |-> CHOOSE p \in Plans : p.mode = "offset"]

OpGet ==
    [method |-> "GET", path |-> <<"/", "t", "/", "{", "i", "d", "}">>,
     params |-> <<Param("as_of", "query", TRUE, "string"),
                  Param("X-Id", "header", FALSE, "string")>>,
     body |-> NoBody, requiresAuth |-> TRUE, security |-> NilSecurity,
     docSecurity |-> <<"bearerAuth">>,
     plan |-> NoPlan]

OpMove ==
    [method |-> "POST",
     path |-> <<"/", "a", "/", "{", "i", "d", "}", "/", "b", "/", "{", "t", "o", "}">>,
     params |-> <<>>,
     body |-> [declared |-> TRUE, required |-> TRUE, cts |-> <<"application/json">>],
     requiresAuth |-> TRUE, security |-> NilSecurity,
     docSecurity |-> <<"bearerAuth">>,
     plan |-> NoPlan]

Operations == {OpList, OpTx, OpGet, OpMove}

\* The request bodies an operation declares: whether one is required, and the
\* sorted content types.
BodySpecs ==
    { [declared |-> TRUE, required |-> r, cts |-> c] :
        r \in BOOLEAN,
        c \in { <<"application/json">>,
                <<"application/json;charset=utf-8">>,
                <<"application/x-www-form-urlencoded", "multipart/form-data">>,
                <<"application/x-www-form-urlencoded">>,
                <<"text/plain">> } }

Range(f) == { f[x] : x \in DOMAIN f }

\* One pass of the loop of bindParams on a parameter that is kept: the canonical
\* flag kebabCase(p.Name), the hidden alias p.Name when it differs, and the
\* required mark, which MarkFlagRequired puts on the canonical flag.
Binding(p) ==
    LET primary == kebabCase(Spell[p.Name])
    IN  [param |-> p,
         flagNames |-> IF primary # Spell[p.Name] THEN <<primary, Spell[p.Name]>>
                       ELSE <<primary>>,
         kind |-> p.kind,
         required |-> IF p.Required THEN {primary} ELSE {}]

\* bindParams(cmd, spec, params, where)
bindParams(params, where) ==
    LET ps == SelectSeq(params, LAMBDA p : p.In = where /\ p.Name # "")
    IN  [j \in 1..Len(ps) |-> Binding(ps[j])]

\* The bindings of a command: query first, then header.
Bindings(o) == bindParams(o.params, "query") \o bindParams(o.params, "header")

\* The state of the flag set: the first error, the flags marked Changed and the
\* variables of the bindings (a string and an int per binding, as in paramBinding).
FlagsFresh(bs) ==
    [err |-> "", changed |-> {},
     vals |-> [n \in { bs[j].param.Name : j \in DOMAIN bs } |-> [s |-> <<>>, i |-> 0]]]

\* pflag sets one flag from its argument: an unknown name and a value that is not
\* an integer for an int flag are errors; the value goes to the variable of the
\* binding, which the canonical flag and the alias share, and the flag that was
\* named is marked Changed.
SetFlag(bs, st, f) ==
    LET hits == { j \in DOMAIN bs : f.name \in Range(bs[j].flagNames) }
    IN  IF hits = {} THEN [st EXCEPT !.err = "unknown flag"]
        ELSE LET b == bs[CHOOSE j \in hits : TRUE]
                 n == b.param.Name
             IN  IF b.kind = "int"
                 THEN IF Atoi(f.val).ok
                      THEN [st EXCEPT !.changed = @ \cup {f.name},
                                      !.vals[n].i = Atoi(f.val).val]
                      ELSE [st EXCEPT !.err = "invalid argument"]
                 ELSE [st EXCEPT !.changed = @ \cup {f.name}, !.vals[n].s = f.val]

RECURSIVE ParseLoop(_, _, _)
ParseLoop(bs, fl, st) ==
    IF fl = <<>> \/ st.err # "" THEN st
    ELSE ParseLoop(bs, Tail(fl), SetFlag(bs, st, Head(fl)))

\* Command.ParseFlags on the flags of the parameters.
ParseFlags(bs, fl) == ParseLoop(bs, fl, FlagsFresh(bs))

\* Command.ValidateRequiredFlags: every flag that carries the required mark must
\* be Changed.
RequiredMissing(bs, st) ==
    \E j \in DOMAIN bs : \E n \in bs[j].required : n \notin st.changed

\* paramBinding.changed, looking at the canonical flag only.
changedCanonicalOnly(b, st) == b.flagNames[1] \in st.changed

\* paramBinding.changed: any of the binding's flags is Changed.
changed(b, st) == \E n \in Range(b.flagNames) : n \in st.changed

\* paramBinding.valuesAsStrings
valuesAsStrings(b, st) ==
    IF b.kind = "int" THEN <<Itoa(st.vals[b.param.Name].i)>>
    ELSE <<st.vals[b.param.Name].s>>

\* url.Values.Add / append(h[k], v)
ValuesAdd(v, k, x) ==
    [y \in DOMAIN v \cup {k} |->
        IF y = k THEN (IF k \in DOMAIN v THEN v[k] ELSE <<>>) \o <<x>> ELSE v[y]]

NoValues == [y \in {} |-> <<>>]

\* paramBinding.addToQuery and addToHeaders (one value per binding here).
addTo(values, b, st) ==
    IF ~changed(b, st) THEN values
    ELSE ValuesAdd(values, b.param.Name, valuesAsStrings(b, st)[1])

RECURSIVE AddAll(_, _, _)
\* for _, b := range bindings { b.addToQuery(q, cmd) }
AddAll(bs, st, values) ==
    IF bs = <<>> THEN values ELSE AddAll(Tail(bs), st, addTo(values, Head(bs), st))

\* ---- the request body (internal/cligen/body.go) ----

IsJSONType(ct) == ct \in {"application/json", "application/json;charset=utf-8"}

\* strings.HasPrefix(s, ct) on the content types of the model.
TypeHasPrefix(s, ct) ==
    s = ct \/ (s = "application/json;charset=utf-8" /\ ct = "application/json")

\* supportsContentType with any JSON type taken for any declared JSON type.
supportsContentTypeAnyJSON(cts, ct) ==
    \E j \in DOMAIN cts : cts[j] = ct \/ (IsJSONType(cts[j]) /\ IsJSONType(ct))

\* bodyFlags.supportsContentType
supportsContentType(cts, ct) ==
    \E j \in DOMAIN cts :
        \/ cts[j] = ct
        \/ TypeHasPrefix(cts[j], ct) /\ IsJSONType(cts[j]) /\ IsJSONType(ct)

\* bodyFlags.defaultDataContentType
defaultDataContentType(cts) ==
    IF \E j \in DOMAIN cts : IsJSONType(cts[j])
    THEN cts[CHOOSE j \in DOMAIN cts :
                 IsJSONType(cts[j]) /\ \A l \in 1..(j - 1) : ~IsJSONType(cts[l])]
    ELSE IF Len(cts) > 0 THEN cts[1] ELSE ""

\* bodyFlags.defaultFormContentType
defaultFormContentType(cts) ==
    IF \E j \in DOMAIN cts : cts[j] = "multipart/form-data"
    THEN "multipart/form-data"
    ELSE IF \E j \in DOMAIN cts : cts[j] = "application/x-www-form-urlencoded"
    THEN "application/x-www-form-urlencoded"
    ELSE ""

\* The files of the model: "o" holds {}, and any other name cannot be opened.
Files == (<<"o">> :> <<"{", "}">>)

\* os.ReadFile / os.Open and io.Copy
ReadFile(name) ==
    IF name \in DOMAIN Files THEN [err |-> "", data |-> Files[name]]
    ELSE [err |-> "open: no such file", data |-> <<>>]

\* readDataArg (no "-": standard input is not read in the model)
readDataArg(arg) ==
    LET a == TrimSpace(arg)
    IN  IF HasPrefix(a, <<"@">>) THEN ReadFile(Tail(a))
        ELSE [err |-> "", data |-> a]

BuildOk(b, ct) == [err |-> "", body |-> b, ct |-> ct]
BuildErr(e) == [err |-> e, body |-> <<>>, ct |-> ""]

RECURSIVE EncodeForm(_, _)
\* The loop of the form-encoded branch and vals.Encode(); the forms of the model
\* that pass have one entry, of letters.
EncodeForm(form, acc) ==
    IF form = <<>> THEN BuildOk(acc, "application/x-www-form-urlencoded")
    ELSE LET c == Cut(Head(form))
         IN  IF ~c.ok \/ TrimSpace(c.k) = <<>> THEN BuildErr("invalid --form")
             ELSE IF HasPrefix(c.v, <<"@">>)
             THEN BuildErr("file upload not supported for form-urlencoded")
             ELSE EncodeForm(Tail(form),
                             (IF acc = <<>> THEN <<>> ELSE acc \o <<"&">>)
                             \o c.k \o <<"=">> \o c.v)

RECURSIVE WriteParts(_, _)
\* The loop of the multipart branch; a part is written as its name and its
\* content, the boundary and the part headers left out.
WriteParts(form, acc) ==
    IF form = <<>> THEN BuildOk(acc, "multipart/form-data")
    ELSE LET c == Cut(Head(form))
         IN  IF ~c.ok \/ TrimSpace(c.k) = <<>> THEN BuildErr("invalid --form")
             ELSE IF HasPrefix(c.v, <<"@">>)
             THEN IF ReadFile(Tail(c.v)).err # ""
                  THEN BuildErr(ReadFile(Tail(c.v)).err)
                  ELSE WriteParts(Tail(form),
                                  acc \o <<"-", "-">> \o c.k \o <<":">>
                                  \o ReadFile(Tail(c.v)).data)
             ELSE WriteParts(Tail(form), acc \o <<"-", "-">> \o c.k \o <<":">> \o c.v)

\* bodyFlags.build: bf is the declared body, d, f and c the --data, --form and
\* --content-type flags (set tells whether the flag is Changed).
build(bf, d, f, c) ==
    LET ctGiven == IF c.v = " " THEN "" ELSE c.v
        hasForm == f.set /\ Len(f.v) > 0
        hasData == d.set /\ TrimSpace(d.v) # <<>>
        ct1 == IF c.set THEN ctGiven ELSE ""
        ct2 == IF hasForm /\ ct1 = "" THEN defaultFormContentType(bf.cts) ELSE ct1
        ct3 == IF hasData /\ ct2 = "" THEN defaultDataContentType(bf.cts) ELSE ct2
    IN  IF c.set /\ ctGiven = "" THEN BuildErr("--content-type set but empty")
        ELSE IF c.set /\ ~supportsContentType(bf.cts, ctGiven)
        THEN BuildErr("unsupported --content-type")
        ELSE IF bf.required /\ ~hasForm /\ ~hasData
        THEN BuildErr("request body required; provide --data or --form")
        ELSE IF ~hasForm /\ ~hasData THEN BuildOk(<<>>, "")
        ELSE IF hasForm /\ ct2 = ""
        THEN BuildErr("this operation does not support form bodies; use --data")
        ELSE IF hasData /\ ct3 = ""
        THEN BuildErr("unable to pick a request content-type")
        ELSE IF IsJSONType(ct3)
        THEN IF ~hasData THEN BuildErr("JSON request body requires --data")
             ELSE IF readDataArg(d.v).err # "" THEN BuildErr(readDataArg(d.v).err)
             ELSE BuildOk(readDataArg(d.v).data, ct3)
        ELSE IF ct3 = "application/x-www-form-urlencoded"
        THEN IF ~hasForm THEN BuildErr("form-encoded body requires --form")
             ELSE EncodeForm(f.v, <<>>)
        ELSE IF ct3 = "multipart/form-data"
        THEN IF ~hasForm THEN BuildErr("multipart body requires --form")
             ELSE WriteParts(f.v, <<>>)
        ELSE BuildErr("unsupported content-type")

\* ---- the command (buildOperationCmd and cobra's execution of it) ----

MaxArgs == 3
MaxFlags == 2

NoData == [set |-> FALSE, v |-> <<>>]
NoForm == [set |-> FALSE, v |-> <<>>]
NoContentType == [set |-> FALSE, v |-> ""]

NoRequest ==
    [method |-> "", path |-> <<>>, query |-> NoValues, header |-> NoValues,
     auth |-> <<>>, body |-> <<>>, ct |-> ""]

RECURSIVE ExpandPath(_, _, _, _)
\* for i, name := range pathParams {
\*     expandedPath = strings.ReplaceAll(expandedPath, "{"+name+"}", url.PathEscape(args[i])) }
ExpandPath(path, names, args, i) ==
    IF i > Len(names) THEN path
    ELSE ExpandPath(ReplaceAll(path, <<"{">> \o names[i] \o <<"}">>, PathEscape(args[i])),
                    names, args, i + 1)

Stop(e) == [kind |-> "stop", err |-> e, diag |-> <<>>, req |-> NoRequest]

\* The request do builds for the query qv: joinBaseAndPath and URL.String on the
\* expanded path (the base URL has no path of its own in the model), the body of
\* body.build, the header parameters, and the Authorization header when the
\* token is not blank.
NewRequest(o, i, r, qv, hv, b) ==
    [method |-> o.method,
     path |-> EscapedPath(ExpandPath(o.path, extractPathParams(o.path), i.args, 1)),
     query |-> qv,
     header |-> hv,
     auth |-> IF TrimSpace(r.Token) # <<>> THEN applyAuth(r.Token, r.Auth) ELSE <<>>,
     body |-> b.body,
     ct |-> IF Len(b.body) > 0 THEN b.ct ELSE ""]

\* do(q) without the check of the error of body.build: the request is made with
\* whatever body came back.
DoRequestAnyway(o, i, r, st, b) ==
    [kind |-> IF i.all THEN "all" ELSE "send", err |-> "", diag |-> <<>>,
     req |-> NewRequest(o, i, r,
                        AddAll(bindParams(o.params, "query"), st, NoValues),
                        AddAll(bindParams(o.params, "header"), st, NoValues),
                        b)]

\* do(q) up to the call of Client.Do, with the flag set st and the outcome b of
\* body.build: a body that cannot be built ends do before any request is made.
DoRequest(o, i, r, st, b) ==
    IF b.err # "" THEN Stop(b.err)
    ELSE [kind |-> IF i.all THEN "all" ELSE "send", err |-> "", diag |-> <<>>,
          req |-> NewRequest(o, i, r,
                             AddAll(bindParams(o.params, "query"), st, NoValues),
                             AddAll(bindParams(o.params, "header"), st, NoValues),
                             b)]

\* RunE, with the flag set st: the token check, the GET check of --all, and do.
RunE(o, i, r, st) ==
    IF o.requiresAuth /\ TrimSpace(r.Token) = <<>>
    THEN [Stop("missing token") EXCEPT !.diag = << <<"Missing token">> >>]
    ELSE IF i.all /\ o.method # "GET"
    THEN Stop("--all is only supported for GET operations")
    ELSE DoRequest(o, i, r, st,
                   IF o.body.declared
                   THEN build(o.body, i.data, i.form, i.contentType)
                   ELSE BuildOk(<<>>, ""))

\* cobra's checks before RunE, with the bindings bs and the flag set st after
\* ParseFlags: a flag error, a flag the command does not have, the number of
\* arguments (ExactArgs(len(pathParams))), the required flags.
Validate(o, i, r, bs, st) ==
    IF st.err # "" THEN Stop(st.err)
    ELSE IF i.all /\ o.plan.mode = "none" THEN Stop("unknown flag")
    ELSE IF (i.data.set \/ i.form.set \/ i.contentType.set) /\ ~o.body.declared
    THEN Stop("unknown flag")
    ELSE IF Len(i.args) # Len(extractPathParams(o.path))
    THEN Stop("accepts n arg(s), received m")
    ELSE IF RequiredMissing(bs, st) THEN Stop("required flag(s) not set")
    ELSE RunE(o, i, r, st)

Parse(o, i, r, bs) == Validate(o, i, r, bs, ParseFlags(bs, i.flags))

\* One execution of the command on operation o, command line i and runtime r, up
\* to the first call of Client.Do: cobra parses the flags, checks the number of
\* arguments and the required flags, and calls RunE.  The result is a failure
\* (kind "stop"), a request handed to Client.Do (kind "send") or the call of
\* fetchAll (kind "all").
Run(o, i, r) == Parse(o, i, r, Bindings(o))

\* What Client.Do returns to do: an error, or a result with its final status.
Answers ==
    { [k |-> "err", status |-> 0, body |-> <<>>] }
    \cup { [k |-> "resp", status |-> s, body |-> b] :
             s \in {200, 404, 429, 500, 503}, b \in { <<>>, <<"{", "}">> } }

NoAnswer == [k |-> "none", status |-> 0, body |-> <<>>, w |-> "ok"]

ApiTokens == { <<>>, <<" ">>, <<"s">>, <<"a", "b">> }
Auths == {"bearer", "basic"}
ArgValues == { <<"7">>, <<"x">>, <<"a", " ", "b">> }
ArgLists == UNION { [1..n -> ArgValues] : n \in 0..MaxArgs }
FlagValues == { <<>>, <<"0">>, <<"+", "7">>, <<"x">> }

\* The flag names tried on o: those of its parameters, and one it does not have.
FlagNamesOf(o) ==
    UNION { Range(Bindings(o)[j].flagNames) : j \in DOMAIN Bindings(o) }
    \cup { <<"z", "z">> }

FlagLists(o) ==
    UNION { [1..n -> { [name |-> nm, val |-> v] : nm \in FlagNamesOf(o), v \in FlagValues }] :
              n \in 0..MaxFlags }

DataArgs ==
    { NoData } \cup
    { [set |-> TRUE, v |-> v] :
        v \in { <<>>, <<"{", "}">>, <<"@", "o">>, <<"@", "z">> } }

FormArgs ==
    { NoForm } \cup
    { [set |-> TRUE, v |-> v] :
        v \in { << <<"k", "=", "v">> >>, << <<"k", "v">> >>, << <<"=", "v">> >>,
                << <<"f", "=", "@", "o">> >>, << <<"f", "=", "@", "z">> >>,
                << <<"k", "=", "v">>, <<"k", "v">> >> } }

ContentTypeArgs ==
    { NoContentType } \cup
    { [set |-> TRUE, v |-> v] :
        v \in { "", " ", "application/json", "application/json;charset=utf-8",
                "multipart/form-data", "application/x-www-form-urlencoded",
                "text/plain" } }

DefaultRt == [Token |-> <<"s">>, Auth |-> "bearer"]

\* The security keys of the model: of the operation none, an empty list or
\* one requirement; of the document an empty list or one requirement.
OpSecurities == { NilSecurity, SecurityList(<<>>), SecurityList(<<"bearerAuth">>) }
DocSecurities == { <<>>, <<"bearerAuth">> }

\* A command line that passes: as many arguments as o has path parameters, no
\* parameter flags, and a JSON body where o declares one.
DefaultInv(o) ==
    [args |-> [j \in 1..Len(extractPathParams(o.path)) |-> <<"7">>],
     flags |-> <<>>,
     all |-> FALSE, maxPages |-> DefaultMaxPages, sleepMS |-> 0, ndjson |-> FALSE,
     data |-> IF o.body.declared THEN [set |-> TRUE, v |-> <<"{", "}">>] ELSE NoData,
     form |-> NoForm,
     contentType |-> NoContentType]

\* The command lines of the model vary one thing at a time: the parameter
\* flags, the arguments, the token and the scheme, the body flags, or --all
\* with its options.
RunInit ==
    /\ \E o \in Operations :
          \/ /\ cmdOp = o
             /\ rt = DefaultRt
             /\ \E fl \in FlagLists(o) : inv = [DefaultInv(o) EXCEPT !.flags = fl]
          \/ /\ cmdOp = o
             /\ rt = DefaultRt
             /\ \E a \in ArgLists : inv = [DefaultInv(o) EXCEPT !.args = a]
          \/ /\ \E os \in OpSecurities, ds \in DocSecurities :
                   cmdOp = [o EXCEPT !.security = os, !.docSecurity = ds,
                                     !.requiresAuth = OperationRequiresAuth(ds, os)]
             /\ rt \in [Token : ApiTokens, Auth : Auths]
             /\ inv \in {DefaultInv(o)} \cup
                        (IF o.body.declared
                         THEN {[DefaultInv(o) EXCEPT !.data = NoData]} ELSE {})
          \/ /\ o = OpMove
             /\ cmdOp \in { [o EXCEPT !.body = bs] : bs \in BodySpecs \cup {NoBody} }
             /\ rt = DefaultRt
             /\ \E d \in DataArgs, f \in FormArgs, c \in ContentTypeArgs :
                   inv = [DefaultInv(o) EXCEPT !.data = d, !.form = f, !.contentType = c]
          \/ /\ cmdOp \in {o, [o EXCEPT !.method = "POST"]}
             /\ rt = DefaultRt
             /\ \E fl \in { l \in FlagLists(o) :
                              Len(l) <= 1 /\ \A j \in DOMAIN l : l[j].val = <<"0">> },
                   mp \in {1, 2}, sl \in {0, 5}, nd \in BOOLEAN :
                   inv = [DefaultInv(o) EXCEPT !.flags = fl, !.all = TRUE,
                                               !.maxPages = mp, !.sleepMS = sl,
                                               !.ndjson = nd]
    /\ runPc = "start"
    /\ requests = <<>>
    /\ answer = NoAnswer
    /\ tmpl = NoRequest

RunIdle ==
    /\ cmdOp = OpList
    /\ inv = DefaultInv(OpList)
    /\ rt = DefaultRt
    /\ runPc = "idle"
    /\ requests = <<>>
    /\ answer = NoAnswer
    /\ tmpl = NoRequest

\* cobra executes the command: up to the request handed to Client.Do, to the
\* call of fetchAll, or to the error that ends the command.
Execute ==
    /\ UNCHANGED runOthers
    /\ runPc = "start"
    /\ \E x \in {Run(cmdOp, inv, rt)} :
           CASE x.kind = "stop" ->
                  /\ runPc' = "done"
                  /\ runErr' = x.err
                  /\ stderr' = stderr \o x.diag
                  /\ UNCHANGED <<requests, answer, tmpl, stdout, pagCore>>
             [] x.kind = "send" ->
                  /\ runPc' = "sent"
                  /\ requests' = Append(requests, x.req)
                  /\ UNCHANGED <<answer, tmpl, stdout, stderr, runErr, pagCore>>
             [] OTHER ->
                  /\ runPc' = "all"
                  /\ tmpl' = x.req
                  /\ plan' = cmdOp.plan
                  /\ initialQuery' = x.req.query
                  /\ q' = [shared |-> TRUE, v |-> x.req.query]
                  /\ maxPagesFlag' = inv.maxPages
                  /\ maxPages' = inv.maxPages
                  /\ sleepMS' = inv.sleepMS
                  /\ ndjson' = inv.ndjson
                  /\ pagPc' = "start"
                  /\ UNCHANGED <<requests, answer, stdout, stderr, runErr, served,
                                 serverLoops, offset, page, res, fetchRet, sent,
                                 sleeps, sleepOver, cancelledAt>>
    /\ UNCHANGED <<cmdOp, inv, rt>>

\* PrintHTTPError on the diagnostic stream under the write outcome e: the status
\* line, then the body.
PrintHTTPError(status, body, e) ==
    WriteAll(<< <<"HTTP", status>> >> \o
             (IF body = <<>> THEN <<>> ELSE << <<"body", body>> >>), e).out

\* PrintHTTP on the primary output under the write outcome w: the body, when it
\* is not empty (--status and --headers are off).
PrintHTTP(body, w) ==
    WriteAll(IF body = <<>> THEN <<>> ELSE << <<"body", body>> >>, w)

\* PrintHTTP for a status >= 400 as for any other: the body goes to the primary
\* output and the command succeeds.
OnErrorStatusPrint(a, w) ==
    /\ runErr' = PrintHTTP(a.body, w).err
    /\ stdout' = stdout \o PrintHTTP(a.body, w).out
    /\ UNCHANGED stderr

\* if res.Status >= 400 { _ = rt.Printer.PrintHTTPError(...); return nil, fmt.Errorf("HTTP %d", res.Status) }
OnErrorStatus(a, w) ==
    /\ runErr' = "HTTP error status"
    /\ stderr' = stderr \o PrintHTTPError(a.status, a.body, w)
    /\ UNCHANGED stdout

\* Client.Do returns to do and RunE ends: an error is returned as it is; a final
\* status >= 400 is printed by PrintHTTPError on the diagnostic stream and
\* returned as an error; any other result is printed by PrintHTTP, whose body
\* goes to the primary output.  w is the outcome of the writes of the print.
Answer ==
    /\ UNCHANGED runOthers
    /\ runPc = "sent"
    /\ \E a \in Answers, w \in WriteResults :
          /\ answer' = [k |-> a.k, status |-> a.status, body |-> a.body, w |-> w]
          /\ CASE a.k = "err" ->
                    /\ w = "ok"
                    /\ runErr' = "request failed"
                    /\ UNCHANGED <<stdout, stderr>>
               [] a.k = "resp" /\ a.status >= 400 -> OnErrorStatus(a, w)
               [] OTHER ->
                    /\ stdout' = stdout \o PrintHTTP(a.body, w).out
                    /\ runErr' = PrintHTTP(a.body, w).err
                    /\ UNCHANGED stderr
    /\ runPc' = "done"
    /\ UNCHANGED <<cmdOp, inv, rt, requests, tmpl, pagCore>>

\* The command has ended.
RunEnded == runPc = "done" \/ (runPc = "all" /\ pagPc = "done")

(***************************************************************************)
(* ------------- schema resolution (internal/openapi) -------------------- *)
(***************************************************************************)
\* An openapi.Schema by what the resolution reads of it: Ref, Type, Properties
\* (a function from the names present; the empty function is the nil map),
\* AllOf, and Items (a sequence of no or one schema, for a nil or set pointer).
Sch(ref, type, props, allOf, items) ==
    [Ref |-> ref, Type |-> type, Properties |-> props, AllOf |-> allOf,
     Items |-> items]

NoProps == [n \in {} |-> 0]

\* A nil *Schema.
NilSchema == Sch("", "<nil>", NoProps, <<>>, <<>>)

RefTo(name) == Sch(name, "", NoProps, <<>>, <<>>)
Typed(t) == Sch("", t, NoProps, <<>>, <<>>)
AllOfOf(subs) == Sch("", "", NoProps, subs, <<>>)
ObjectOf(props) == Sch("", "object", props, <<>>, <<>>)
ArrayOf(item) == Sch("", "array", NoProps, <<>>, <<item>>)

\* The deepest nesting of calls of derefSchema and flattenSchema the model
\* follows before it gives a resolution up as not returning.
MaxDepth == 8

\* The outcome of a call: the schema returned, the seen map as the call left
\* it (the map is shared by reference), and whether the call was given up.
Ret(s, seen) == [s |-> s, seen |-> seen, over |-> FALSE]
GivenUp == [s |-> NilSchema, seen |-> {}, over |-> TRUE]

\* Spec.ResolveSchemaRef: the reference names a component of the document.  (A
\* reference is written by the name after "#/components/schemas/"; "ext" is a
\* reference without that prefix.)
ResolveSchemaRef(doc, ref) ==
    IF ref \in DOMAIN doc THEN [ok |-> TRUE, s |-> doc[ref]]
    ELSE [ok |-> FALSE, s |-> NilSchema]

RECURSIVE derefSchemaNoSeen(_, _, _, _)
\* derefSchema without the test of the seen map.
derefSchemaNoSeen(doc, schema, seen, d) ==
    IF d > MaxDepth THEN GivenUp
    ELSE IF schema = NilSchema THEN Ret(NilSchema, seen)
    ELSE IF schema.Ref = "" THEN Ret(schema, seen)
    ELSE IF ~ResolveSchemaRef(doc, schema.Ref).ok
    THEN Ret(schema, seen \cup {schema.Ref})
    ELSE derefSchemaNoSeen(doc, ResolveSchemaRef(doc, schema.Ref).s,
                           seen \cup {schema.Ref}, d + 1)

RECURSIVE derefSchemaSeen(_, _, _, _)
\* Spec.derefSchema(schema, seen), at nesting d.
derefSchemaSeen(doc, schema, seen, d) ==
    IF d > MaxDepth THEN GivenUp
    ELSE IF schema = NilSchema THEN Ret(NilSchema, seen)
    ELSE IF schema.Ref = "" THEN Ret(schema, seen)
    ELSE IF schema.Ref \in seen THEN Ret(schema, seen)
    ELSE IF ~ResolveSchemaRef(doc, schema.Ref).ok
    THEN Ret(schema, seen \cup {schema.Ref})
    ELSE derefSchemaSeen(doc, ResolveSchemaRef(doc, schema.Ref).s,
                         seen \cup {schema.Ref}, d + 1)

\* Spec.derefSchema
derefSchema(doc, schema, seen, d) == derefSchemaSeen(doc, schema, seen, d)

\* Spec.DerefSchema
DerefSchema(doc, schema) == derefSchema(doc, schema, {}, 1)

RECURSIVE DerefProps(_, _, _, _, _, _)
\* One pass of the loop over the properties, r being what derefSchema gave for
\* the property Head(ks): cp.Properties[k] = *d.
DerefPropsStep(doc, props, ks, acc, d, r) ==
    IF r.over THEN [props |-> acc, seen |-> r.seen, over |-> TRUE]
    ELSE DerefProps(doc, props, Tail(ks), (Head(ks) :> r.s) @@ acc, r.seen, d)

\* for k, v := range schema.Properties { d := s.derefSchema(&vv, seen); ... },
\* the names taken in the order ks; acc is cp.Properties so far.
DerefProps(doc, props, ks, acc, seen, d) ==
    IF ks = <<>> THEN [props |-> acc, seen |-> seen, over |-> FALSE]
    ELSE DerefPropsStep(doc, props, ks, acc, d,
                        derefSchema(doc, props[Head(ks)], seen, d + 1))

\* The names of props in the order ord takes them (the order of a range over
\* a Go map is not fixed).
KeysIn(props, ord) == SelectSeq(ord, LAMBDA k : k \in DOMAIN props)

RECURSIVE flattenSchema(_, _, _, _, _)
RECURSIVE MergeAllOf(_, _, _, _, _, _, _)
\* One pass of the loop over schema.AllOf, f being what flattenSchema gave for
\* the sub-schema Head(subs): a nil is skipped; merged.Type is set only while it
\* is empty; the properties of subF are put into merged.Properties.
MergeAllOfStep(doc, subs, merged, ord, d, wrapper, f) ==
    IF f.over THEN GivenUp
    ELSE MergeAllOf(doc, Tail(subs),
                    IF f.s = NilSchema THEN merged
                    ELSE [merged EXCEPT
                            !.Type = IF f.s.Type # "" /\ @ = "" THEN f.s.Type ELSE @,
                            !.Properties = f.s.Properties @@ @],
                    f.seen, ord, d, wrapper)

\* for _, sub := range schema.AllOf { subF := s.flattenSchema(sub, seen); ... }
\* and what follows the loop: without any merged property the schema itself
\* is returned.
MergeAllOf(doc, subs, merged, seen, ord, d, wrapper) ==
    IF subs = <<>>
    THEN Ret(IF DOMAIN merged.Properties = {} THEN wrapper ELSE merged, seen)
    ELSE MergeAllOfStep(doc, subs, merged, ord, d, wrapper,
                        flattenSchema(doc, Head(subs), seen, ord, d + 1))

\* cp := *schema; cp.Properties = the dereferenced properties
FlattenObject(schema, p) ==
    IF p.over THEN GivenUp ELSE Ret([schema EXCEPT !.Properties = p.props], p.seen)

\* cp := *schema; cp.Items = s.derefSchema(schema.Items, seen)
FlattenArray(schema, r) ==
    IF r.over THEN GivenUp ELSE Ret([schema EXCEPT !.Items = <<r.s>>], r.seen)

\* flattenSchema after schema = s.derefSchema(schema, seen), whose outcome is r.
FlattenDerefed(doc, ord, d, r) ==
    IF r.over THEN GivenUp
    ELSE IF r.s = NilSchema THEN Ret(NilSchema, r.seen)
    ELSE IF /\ Len(r.s.AllOf) > 0
            /\ DOMAIN r.s.Properties = {}
            /\ r.s.Type = ""
            /\ r.s.Items = <<>>
    THEN MergeAllOf(doc, r.s.AllOf, ObjectOf(NoProps), r.seen, ord, d, r.s)
    ELSE IF r.s.Type = "object" /\ DOMAIN r.s.Properties # {}
    THEN FlattenObject(r.s, DerefProps(doc, r.s.Properties,
                                       KeysIn(r.s.Properties, ord), NoProps,
                                       r.seen, d))
    ELSE IF r.s.Type = "array" /\ r.s.Items # <<>>
    THEN FlattenArray(r.s, derefSchema(doc, r.s.Items[1], r.seen, d + 1))
    ELSE Ret(r.s, r.seen)

\* Spec.flattenSchema(schema, seen), at nesting d; ord is the order the ranges
\* over property maps take.
flattenSchema(doc, schema, seen, ord, d) ==
    IF d > MaxDepth THEN GivenUp
    ELSE IF schema = NilSchema THEN Ret(NilSchema, seen)
    ELSE FlattenDerefed(doc, ord, d, derefSchema(doc, schema, seen, d + 1))

\* Spec.FlattenSchema
FlattenSchema(doc, schema, ord) == flattenSchema(doc, schema, {}, ord, 1)

\* ---- detectPaginationPlan (internal/cligen) ----

\* hasProp
hasProp(schema, name) == schema # NilSchema /\ name \in DOMAIN schema.Properties

\* hasArrayProp: the property is there and flattens to a schema of type array.
hasArrayProp(doc, schema, name, ord) ==
    /\ schema # NilSchema
    /\ name \in DOMAIN schema.Properties
    /\ FlattenSchema(doc, schema.Properties[name], ord).s.Type = "array"

\* The property names of the model as sort.Strings orders them (bytewise:
\* "P" comes before "_").
PropNamesSorted ==
    <<"nextPage", "next_page_token", "page", "records", "total", "transactions">>

\* firstArrayPropertyName: the first property in sorted order, skip left out,
\* that flattens to an array; "" when there is none.
firstArrayPropertyName(doc, schema, skip, ord) ==
    LET ks == SelectSeq(PropNamesSorted,
                        LAMBDA k : k # skip /\ hasArrayProp(doc, schema, k, ord))
    IN  IF ks = <<>> THEN "" ELSE ks[1]

\* The cursor style of detectPaginationPlan, on the flattened schema.
DetectCursor(doc, query, schema, ord) ==
    IF /\ "start_after" \in query
       /\ "page" \in DOMAIN schema.Properties
       /\ FlattenSchema(doc, schema.Properties["page"], ord).s.Type = "object"
       /\ "nextPage" \in
              DOMAIN FlattenSchema(doc, schema.Properties["page"], ord).s.Properties
       /\ firstArrayPropertyName(doc, schema, "page", ord) # ""
    THEN [mode |-> "cursor", queryParam |-> "start_after",
          itemField |-> firstArrayPropertyName(doc, schema, "page", ord),
          nextTokenField |-> "page.nextPage", totalField |-> ""]
    ELSE NoPlan

\* if hasQuery("offset") { if hasArrayProp(spec, schema, "transactions") && hasProp(schema, "total") {
DetectOffset(doc, query, schema, ord) ==
    /\ "offset" \in query
    /\ hasArrayProp(doc, schema, "transactions", ord)
    /\ hasProp(schema, "total")

\* detectPaginationPlan after schema = spec.FlattenSchema(schema).
DetectFlattened(doc, query, schema, ord) ==
    IF schema = NilSchema \/ schema.Type # "object" THEN NoPlan
    ELSE IF /\ "page_token" \in query
            /\ hasArrayProp(doc, schema, "records", ord)
            /\ hasProp(schema, "next_page_token")
    THEN [mode |-> "pageToken", queryParam |-> "page_token", itemField |-> "records",
          nextTokenField |-> "next_page_token", totalField |-> ""]
    ELSE IF DetectOffset(doc, query, schema, ord)
    THEN [mode |-> "offset", queryParam |-> "offset", itemField |-> "transactions",
          nextTokenField |-> "", totalField |-> "total"]
    ELSE DetectCursor(doc, query, schema, ord)

\* detectPaginationPlan: query is the set of names of the query parameters the
\* operation declares, resp what jsonResponseSchema gives for "200" (NilSchema
\* when there is none); NoPlan stands for a nil plan.
detectPaginationPlan(doc, query, resp, ord) ==
    IF resp = NilSchema THEN NoPlan
    ELSE DetectFlattened(doc, query, FlattenSchema(doc, resp, ord).s, ord)

\* ---- the documents and schemas of the model ----

\* The plain schemas: references to the components A and B, to a component the
\* document does not have, and two types.
LeafSchemas ==
    { RefTo("A"), RefTo("B"), RefTo("X"), Typed("string"), Typed("array") }

RefLeaves == { RefTo("A"), RefTo("B") }

\* The schemas a component or an entry point can be: plain ones, allOf
\* wrappers of one and of two schemas and of a wrapper, objects with one
\* property and with two properties that are references, an array of a
\* reference, and a reference that also carries an allOf.
SchemaShapes ==
    LeafSchemas
    \cup { AllOfOf(<<l>>) : l \in LeafSchemas }
    \cup { AllOfOf(<<l1, l2>>) : l1 \in RefLeaves, l2 \in RefLeaves }
    \cup { AllOfOf(<<AllOfOf(<<l>>)>>) : l \in RefLeaves }
    \cup { ObjectOf("page" :> l) : l \in LeafSchemas }
    \cup { ObjectOf(("page" :> l1) @@ ("records" :> l2)) :
             l1 \in RefLeaves, l2 \in RefLeaves }
    \cup { ArrayOf(l) : l \in RefLeaves }
    \cup { Sch("A", "", NoProps, <<RefTo("B")>>, <<>>) }

\* The documents: the components A and B, each of any shape.
SchemaDocs == [{"A", "B"} -> SchemaShapes]

\* The orders a range over a property map can take.
PropOrders ==
    { PropNamesSorted,
      <<"transactions", "total", "records", "page", "next_page_token", "nextPage">> }

NoOut == [s |-> NilSchema, seen |-> {}, over |-> FALSE]

\* A resolution is asked for: any document, any entry schema.
SchemaInit ==
    /\ schDoc \in SchemaDocs
    /\ schEntry \in SchemaShapes
    /\ schOrder \in PropOrders
    /\ schQuery = {}
    /\ schPc = "ready"
    /\ derefOut = NoOut
    /\ flatOut = NoOut
    /\ planOut = NoPlan

\* The component the responses of the detection refer to.
DetectDoc ==
    ("A" :> ObjectOf("nextPage" :> Typed("string"))) @@ ("B" :> Typed("array"))

\* The properties a 200 response can declare: each of the five names absent
\* or present with one of a few schemas.
PropChoices ==
    [ transactions : { "", "array", "string", "refB" },
      total : { "", "integer", "number", "string", "array" },
      records : { "", "array" },
      next_page_token : { "", "string" },
      page : { "", "refA", "string" } ]

PropSchema(c) ==
    CASE c = "refA" -> RefTo("A")
      [] c = "refB" -> RefTo("B")
      [] OTHER -> Typed(c)

\* The properties of the choice c, as a map.
PropsOf(c) ==
    [k \in { k \in {"transactions", "total", "records", "next_page_token", "page"} :
               c[k] # "" } |-> PropSchema(c[k])]

\* The 200-response schemas: none, an array, and the objects of PropChoices
\* (an object without properties has type object all the same).
ResponseSchemas ==
    { NilSchema, Typed("array") } \cup { ObjectOf(PropsOf(c)) : c \in PropChoices }

QueryNames == {"offset", "page_token", "start_after"}

\* A detection is asked for: any response schema, any set of query parameters.
DetectInit ==
    /\ schDoc = DetectDoc
    /\ schEntry \in ResponseSchemas
    /\ schOrder = PropNamesSorted
    /\ schQuery \in SUBSET QueryNames
    /\ schPc = "ready"
    /\ derefOut = NoOut
    /\ flatOut = NoOut
    /\ planOut = NoPlan

SchIdle ==
    /\ schDoc = DetectDoc
    /\ schEntry = NilSchema
    /\ schOrder = PropNamesSorted
    /\ schQuery = {}
    /\ schPc = "idle"
    /\ derefOut = NoOut
    /\ flatOut = NoOut
    /\ planOut = NoPlan

\* DerefSchema and FlattenSchema are called on the entry schema, and
\* detectPaginationPlan on an operation with the query parameters schQuery
\* whose 200 response has the entry schema.
Inspect ==
    /\ UNCHANGED schOthers
    /\ schPc = "ready"
    /\ derefOut' = DerefSchema(schDoc, schEntry)
    /\ flatOut' = FlattenSchema(schDoc, schEntry, schOrder)
    /\ planOut' = detectPaginationPlan(schDoc, schQuery, schEntry, schOrder)
    /\ schPc' = "done"
    /\ UNCHANGED <<schDoc, schEntry, schOrder, schQuery>>

SchNext == Inspect

\* The longest identifier handed to kebabCase.
MaxIdLen == 4

\* The characters identifiers are made of: a lower-case and an upper-case letter,
\* a digit, a hyphen, a space and a non-ASCII letter.
IdChars == {"a", "B", "1", "-", " ", "é"}

Idents == UNION { [1..n -> IdChars] : n \in 0..MaxIdLen }

KebabInit ==
    /\ ident \in Idents
    /\ kebabPc = "ready"
    /\ kebabOut = <<>>
    /\ kebabAgain = <<>>

KebabIdle ==
    /\ ident = <<>>
    /\ kebabPc = "idle"
    /\ kebabOut = <<>>
    /\ kebabAgain = <<>>

\* A name is canonicalized, and the canonical name is canonicalized again (as a
\* group name or a flag name is when it is read back as an identifier).
Canonicalize ==
    /\ UNCHANGED kebabOthers
    /\ kebabPc = "ready"
    /\ kebabOut' = kebabCase(ident)
    /\ kebabAgain' = kebabCase(kebabCase(ident))
    /\ kebabPc' = "done"
    /\ UNCHANGED ident

KebabNext == Canonicalize

(***************************************************************************)
(* ------------------------ AddOpenAPICommands --------------------------- *)
(***************************************************************************)
\* The most operations the documents of a run declare together.
MaxOps == 2

\* The method names of PathItem.Operations(), as Go strings.
MethodBytes(m) ==
    CASE m = "GET" -> <<"G", "E", "T">>
      [] m = "POST" -> <<"P", "O", "S", "T">>

GenMethods == {"GET", "POST"}

\* The method a Go string names.
MethodBytes2Name(b) == CHOOSE m \in GenMethods : MethodBytes(m) = b
GenPaths == { <<"/", "p", "/", "{", "i", "d", "}">>, <<"/", "q">> }

\* The places an operation can be declared at: <<document, path, method>>.  The
\* second document has the first path only.
Slots ==
    { <<1, pth, m>> : pth \in GenPaths, m \in GenMethods }
    \cup { <<2, <<"/", "p", "/", "{", "i", "d", "}">>, "GET">> }

\* An operation, by what the generator reads of it: operationId, tags, and
\* whether it carries a parameter or request-body $ref (which no command can be
\* built from; the operations with one are the untagged ones).
Ops ==
    { op \in [ OperationID : { <<" ">>, <<"a", "B">>, <<"a", "-", "b">>, <<"c">> },
               Tags : { <<>>, << <<"X">> >>, << <<"x">> >> },
               hasRef : BOOLEAN ] : op.hasRef => op.Tags = <<>> }

DocNames == <<"mwb", "onboarding">>

\* The documents in which the operations of S are declared as f says.
BuildDocs(S, f) ==
    [ d \in 1..2 |->
        [ Name |-> DocNames[d],
          Paths |-> [ pth \in { sl[2] : sl \in { x \in S : x[1] = d } } |->
                        [ m \in { sl[3] : sl \in { x \in S : x[1] = d /\ x[2] = pth } } |->
                            f[<<d, pth, m>>] ] ] ] ]

\* All orders in which ranging over a map with key set K can yield the keys.
Perms(K) ==
    { o \in [1..Cardinality(K) -> K] : \A i, j \in 1..Cardinality(K) : o[i] = o[j] => i = j }

\* All ways the maps of one document can be iterated: an order of its paths and,
\* for every path, an order of its methods.
DocOrders(doc) ==
    { [paths |-> po, methods |-> mo] :
        po \in Perms(DOMAIN doc.Paths),
        mo \in { g \in [DOMAIN doc.Paths -> UNION { Perms(K) : K \in SUBSET GenMethods }] :
                   \A pth \in DOMAIN doc.Paths : g[pth] \in Perms(DOMAIN doc.Paths[pth]) } }

\* All ways the maps of the two documents ds can be iterated.
Orders(ds) == { <<o1, o2>> : o1 \in DocOrders(ds[1]), o2 \in DocOrders(ds[2]) }

RECURSIVE InsertStr(_, _)
\* x put into the sorted list s.
InsertStr(x, s) ==
    IF s = <<>> THEN <<x>>
    ELSE IF LessStr(x, Head(s)) THEN <<x>> \o s
    ELSE <<Head(s)>> \o InsertStr(x, Tail(s))

RECURSIVE SortStringsLoop(_, _)
SortStringsLoop(keys, acc) ==
    IF keys = <<>> THEN acc ELSE SortStringsLoop(Tail(keys), InsertStr(Head(keys), acc))

\* The keys as the map happened to yield them: no sort.
SortStringsNone(keys) == keys

\* sort.Strings
SortStrings(keys) == SortStringsLoop(keys, <<>>)

NoErr == [kind |-> "none", doc |-> "", method |-> "", path |-> <<>>,
          prevMethod |-> "", prevPath |-> <<>>, group |-> <<>>, cmd |-> <<>>]

\* "<file> <method> <path> missing operationId"
ErrMissingOperationId(doc, m, pth) ==
    [NoErr EXCEPT !.kind = "missing operationId", !.doc = doc.Name, !.method = m,
                  !.path = pth]

\* "duplicate command name <cmd> in group <group> (<m> <p> conflicts with <m> <p>)"
ErrDuplicate(g, prev) ==
    [NoErr EXCEPT !.kind = "duplicate command name", !.cmd = g.cmdName,
                  !.group = g.groupName, !.method = g.method, !.path = g.path,
                  !.prevMethod = prev.method, !.prevPath = prev.path]

\* "unsupported parameter $ref" / "unsupported requestBody $ref"
ErrUnsupportedRef == [NoErr EXCEPT !.kind = "unsupported $ref"]

Misc == <<"m", "i", "s", "c">>

\* The genOp built for operation op at (method m, path pth) of doc.
GenOpOf(doc, m, pth, op) ==
    LET tag == IF op.Tags # <<>> /\ TrimSpace(op.Tags[1]) # <<>> THEN op.Tags[1] ELSE Misc
        gn == kebabCase(tag)
    IN  [ specDocName |-> doc.Name, method |-> m, path |-> pth, hasRef |-> op.hasRef,
          tag |-> tag,
          groupName |-> IF gn = <<>> THEN Misc ELSE gn,
          cmdName |-> kebabCase(op.OperationID) ]

RECURSIVE CollectMethods(_, _, _, _)
\* The loop over the sorted methods ms of path pth; st is [err, ops].
CollectMethods(doc, pth, ms, st) ==
    IF ms = <<>> \/ st.err # NoErr THEN st
    ELSE LET m == Head(ms)
             op == doc.Paths[pth][MethodBytes2Name(m)]
         IN  IF TrimSpace(op.OperationID) = <<>>
             THEN [st EXCEPT !.err = ErrMissingOperationId(doc, MethodBytes2Name(m), pth)]
             ELSE CollectMethods(doc, pth, Tail(ms),
                    [st EXCEPT !.ops = Append(@, GenOpOf(doc, MethodBytes2Name(m), pth, op))])

RECURSIVE CollectPaths(_, _, _, _)
\* The loop over the sorted paths ps of doc; ord is the document's iteration order.
CollectPaths(doc, ord, ps, st) ==
    IF ps = <<>> \/ st.err # NoErr THEN st
    ELSE LET pth == Head(ps)
             iterated == [i \in 1..Len(ord.methods[pth]) |-> MethodBytes(ord.methods[pth][i])]
         IN  CollectPaths(doc, ord, Tail(ps),
                          CollectMethods(doc, pth, SortStrings(iterated), st))

RECURSIVE CollectDocs(_, _, _, _)
\* The loop over the documents, from document d on.
CollectDocs(ds, ords, d, st) ==
    IF d > Len(ds) \/ st.err # NoErr THEN st
    ELSE CollectDocs(ds, ords, d + 1,
                     CollectPaths(ds[d], ords[d], SortStrings(ords[d].paths), st))

\* The less function of the sort.SliceStable call: group, command, method, path.
opLess(a, b) ==
    IF a.groupName # b.groupName THEN LessStr(a.groupName, b.groupName)
    ELSE IF a.cmdName # b.cmdName THEN LessStr(a.cmdName, b.cmdName)
    ELSE IF a.method # b.method THEN LessStr(MethodBytes(a.method), MethodBytes(b.method))
    ELSE LessStr(a.path, b.path)

RECURSIVE InsertOp(_, _)
\* x put into the sorted list s behind everything it is not less than (stable).
InsertOp(x, s) ==
    IF s = <<>> THEN <<x>>
    ELSE IF opLess(x, Head(s)) THEN <<x>> \o s
    ELSE <<Head(s)>> \o InsertOp(x, Tail(s))

RECURSIVE SortOpsLoop(_, _)
SortOpsLoop(ops, acc) ==
    IF ops = <<>> THEN acc ELSE SortOpsLoop(Tail(ops), InsertOp(Head(ops), acc))

\* sort.SliceStable(ops, less)
SortSliceStable(ops) == SortOpsLoop(ops, <<>>)

\* buildOperationCmd, by its outcome: an error for a $ref, else the command with
\* its name and its positional arguments.
buildOperationCmd(g) ==
    IF g.hasRef
    THEN [err |-> ErrUnsupportedRef, cmd |-> [name |-> <<>>, args |-> <<>>]]
    ELSE [err |-> NoErr,
          cmd |-> [name |-> g.cmdName, args |-> extractPathParams(g.path)]]

\* The index of group gn among root's generated children, 0 when it has none yet.
GroupIndex(root, gn) ==
    IF \E i \in 1..Len(root) : root[i].group = gn
    THEN CHOOSE i \in 1..Len(root) : root[i].group = gn
    ELSE 0

\* The duplicate check, switched off.
IsDuplicateNever(seen, g) == FALSE

\* _, ok := seen[g.groupName][g.cmdName]
IsDuplicate(seen, g) ==
    \E i \in 1..Len(seen) : seen[i].groupName = g.groupName /\ seen[i].cmdName = g.cmdName

RECURSIVE Register(_, _)
\* The registration loop over the sorted ops; st is [err, root, seen].
Register(ops, st) ==
    IF ops = <<>> \/ st.err # NoErr THEN st
    ELSE LET g == Head(ops)
             root1 == IF GroupIndex(st.root, g.groupName) = 0
                      THEN Append(st.root, [group |-> g.groupName, short |-> g.tag,
                                            cmds |-> <<>>])
                      ELSE st.root
             gi == GroupIndex(root1, g.groupName)
         IN  IF IsDuplicate(st.seen, g)
             THEN LET prev == st.seen[CHOOSE i \in 1..Len(st.seen) :
                                         /\ st.seen[i].groupName = g.groupName
                                         /\ st.seen[i].cmdName = g.cmdName]
                  IN  [st EXCEPT !.err = ErrDuplicate(g, prev), !.root = root1]
             ELSE LET built == buildOperationCmd(g)
                  IN  IF built.err # NoErr
                      THEN [st EXCEPT !.err = built.err, !.root = root1,
                                      !.seen = Append(@, g)]
                      ELSE Register(Tail(ops),
                             [st EXCEPT !.seen = Append(@, g),
                                        !.root = [root1 EXCEPT ![gi].cmds =
                                                    Append(@, built.cmd)]])

\* AddOpenAPICommands(root, ds) when the maps are iterated as ords says: the error
\* returned and the children added to root (also those added before a failure).
AddOpenAPICommands(ds, ords) ==
    LET collected == CollectDocs(ds, ords, 1, [err |-> NoErr, ops |-> <<>>])
    IN  IF collected.err # NoErr
        THEN [err |-> collected.err, root |-> <<>>]
        ELSE LET st == Register(SortSliceStable(collected.ops),
                                [err |-> NoErr, root |-> <<>>, seen |-> <<>>])
             IN  [err |-> st.err, root |-> st.root]

GenInit ==
    /\ \E S \in SUBSET Slots :
          /\ Cardinality(S) <= MaxOps
          /\ \E f \in [S -> Ops] : docs = BuildDocs(S, f)
    /\ genPc = "ready"
    /\ iterOrder = <<>>
    /\ rootCmds = <<>>
    /\ genErr = NoErr

GenIdle ==
    /\ docs = <<>>
    /\ genPc = "idle"
    /\ iterOrder = <<>>
    /\ rootCmds = <<>>
    /\ genErr = NoErr

\* NewRootCmd calls AddOpenAPICommands; the maps iterate in some order.
Generate ==
    /\ UNCHANGED genOthers
    /\ genPc = "ready"
    /\ \E ords \in Orders(docs) :
          /\ iterOrder' = ords
          /\ rootCmds' = AddOpenAPICommands(docs, ords).root
          /\ genErr' = AddOpenAPICommands(docs, ords).err
    /\ genPc' = "done"
    /\ UNCHANGED docs

GenNext == Generate

\* The generator alone: a run of NewRootCmd up to the generated commands.
InitGen == GenInit /\ DoIdle /\ PagIdle /\ KebabIdle /\ BoIdle /\ RunIdle /\ SchIdle

SpecGen == InitGen /\ [][GenNext]_vars

(***************************************************************************)
(* ------------------------------- claims -------------------------------- *)
(***************************************************************************)
IdempotentMethods == {"GET", "HEAD", "PUT", "DELETE", "OPTIONS"}

\* The condition the retry policy is stated with, for the response to attempt i.
RetryCond(status, i) ==
    /\ status = 429 \/ status >= 500
    /\ method \in IdempotentMethods \/ retryNonIdempotent
    /\ i < 5

DoReturned == doPc = "returned"

\* C1 as stated: a completed response is followed by another attempt if and only
\* if its status is 429 or >= 500, the method is idempotent or the option is on,
\* and fewer than 5 attempts have been made.  Only the last logged attempt can be
\* one that was not followed; once Do has returned, it was not.
C1_RetriedIffRetryable ==
    \A i \in 1..Len(attempts) :
        attempts[i].kind = "resp" =>
            /\ i < Len(attempts) => RetryCond(attempts[i].status, i)
            /\ (i = Len(attempts) /\ DoReturned) => ~RetryCond(attempts[i].status, i)

\* C1 amended: a completed response is followed by the backoff wait, and after it
\* by another attempt, if and only if the stated condition holds; the one way out
\* of the wait without another attempt is the request's context being done, and
\* then Do returns the context's error and no result.  A response that does not
\* meet the condition is returned as the result.
C1_RetriedIffRetryableUnlessCancelled ==
    \A i \in 1..Len(attempts) :
        attempts[i].kind = "resp" =>
            /\ i < Len(attempts) => RetryCond(attempts[i].status, i)
            /\ (i = Len(attempts) /\ doPc = "backoff") => RetryCond(attempts[i].status, i)
            /\ (i = Len(attempts) /\ DoReturned) =>
                  IF RetryCond(attempts[i].status, i)
                  THEN ctxDone /\ doErr = CtxError /\ doResult = NoResult
                  ELSE doErr = "" /\ doResult = [isNil |-> FALSE, Status |-> attempts[i].status]

\* C1's case: a 503 to a POST was retried because the option is on, and the
\* 404 that followed was returned.
C1_Witness ==
    /\ DoReturned /\ method = "POST" /\ retryNonIdempotent
    /\ Len(attempts) = 2
    /\ attempts[1] = [kind |-> "resp", status |-> 503]
    /\ attempts[2] = [kind |-> "resp", status |-> 404]
    /\ doResult.Status = 404

\* C2: every call of Do issues at least 1 and at most 5 HTTP attempts.
C2_AttemptsBetween1And5 ==
    /\ Len(attempts) <= 5
    /\ DoReturned => Len(attempts) >= 1

\* C2's case: all five attempts were used.
C2_Witness == DoReturned /\ Len(attempts) = 5

\* C3: an attempt that ends in a network-level failure is the last one, and Do
\* returns that error and no result, whatever the method, option or attempt.
C3_NetworkFailureAborts ==
    \A i \in 1..Len(attempts) :
        attempts[i].kind = "neterr" =>
            /\ i = Len(attempts)
            /\ DoReturned
            /\ doErr = attempts[i].err
            /\ doResult = NoResult

\* C3's case: a retrying call (option on, POST) fails at the network on attempt 3.
C3_Witness ==
    /\ DoReturned /\ method = "POST" /\ retryNonIdempotent
    /\ Len(attempts) = 3
    /\ attempts[3].kind = "neterr"
    /\ doErr = "i/o timeout"

(* ---- pagination ---- *)
FetchAllReturned == pagPc \in {"returned", "done"}

\* A page the claims call usable: do succeeded and the body is a JSON object with
\* an array under the item field.
Usable(o) == o.k = "ok" /\ o.body = "object" /\ o.obj.item.t = "array"

AllUsable == \A i \in 1..Len(served) : Usable(served[i])

\* The concatenation of the item arrays of all pages received, in page order.
ServedItems == Concat([i \in 1..Len(served) |-> served[i].obj.item.a])

\* page.nextPage of a cursor page (absent when there is no page object), and
\* next_page_token of a page-token page.
NextPageOf(o) == IF o.obj.page.t = "object" THEN o.obj.page.nextPage ELSE JAbsent

AbsentOrNull(v) == v.t \in {"absent", "null"}

\* The value the i-th call of do carried for the plan's query parameter.
SentParam(i) == ValuesGet(sent[i], plan.queryParam)

\* C4 as stated: cursor mode, all pages usable.  (a) no fetch follows a page whose
\* page.nextPage is absent or null; (b) the run does not end on a page whose
\* page.nextPage is non-null, so exactly k pages are fetched; (c) fetch i+1
\* carries start_after = page i's page.nextPage; (d) the result's items are the
\* concatenation of the pages' item arrays.
C4_CursorExactlyK ==
    (plan.mode = "cursor" /\ AllUsable) =>
        /\ \A i \in 1..(Len(served) - 1) : ~AbsentOrNull(NextPageOf(served[i]))
        /\ (FetchAllReturned /\ served # <<>>) => AbsentOrNull(NextPageOf(Last(served)))
        /\ \A i \in 1..(Len(sent) - 1) : SentParam(i + 1) = NextPageOf(served[i]).s
        /\ FetchAllReturned =>
              /\ fetchRet.hasRes /\ fetchRet.err = ""
              /\ fetchRet.res.Items = ServedItems

EndsCursor(v) == AbsentOrNull(v) \/ v = JStr(<<>>)

\* C4 amended: the sequence ends at the first page whose page.nextPage is absent,
\* null or the empty string, and k is within the page cap.  A run that ends on a
\* page that asks for more has used up the cap and fails.
C4_CursorExactlyKWithinCap ==
    (plan.mode = "cursor" /\ AllUsable) =>
        /\ \A i \in 1..(Len(served) - 1) : ~EndsCursor(NextPageOf(served[i]))
        /\ (FetchAllReturned /\ served # <<>>) =>
              IF EndsCursor(NextPageOf(Last(served)))
              THEN /\ fetchRet.hasRes /\ fetchRet.err = ""
                   /\ fetchRet.res.Items = ServedItems
              ELSE /\ Len(served) = maxPages
                   /\ fetchRet.err = ErrExceeded
        /\ \A i \in 1..(Len(sent) - 1) : SentParam(i + 1) = NextPageOf(served[i]).s
        /\ pagPc = "done" /\ runErr = "" /\ ~ndjson =>
              stdout = << <<"body", [Last(served).obj EXCEPT
                                       !.item = [t |-> "array", a |-> ServedItems]]>> >>

\* C4's case: [b,a] with nextPage "t1", then [a] with nextPage null: two fetches,
\* the second with start_after=t1, and exactly [b,a,a].
C4_Witness ==
    /\ plan.mode = "cursor" /\ pagPc = "done" /\ runErr = ""
    /\ Len(sent) = 2
    /\ served[1].obj.item.a = <<"b", "a">>
    /\ served[1].obj.page.nextPage = JStr(<<"t", "1">>)
    /\ served[2].obj.item.a = <<"a">>
    /\ served[2].obj.page.nextPage = JNull
    /\ SentParam(2) = <<"t", "1">>
    /\ fetchRet.res.Items = <<"b", "a", "a">>

\* The offset the first call of do carried: the run's initial offset.
InitialOffset == Atoi(ValuesGet(sent[1], "offset")).val

RECURSIVE ItemsUpTo(_)
\* The number of items received on pages 1..i.
ItemsUpTo(i) == IF i = 0 THEN 0 ELSE ItemsUpTo(i - 1) + Len(served[i].obj.item.a)

\* The running offset after page i.
RunningOffset(i) == InitialOffset + ItemsUpTo(i)

Cap == IF maxPagesFlag <= 0 THEN 1000 ELSE maxPagesFlag

\* Whether the mode's stop condition is met by the last page received.
StopReached ==
    LET o == Last(served)
    IN  CASE plan.mode = "cursor" -> EndsCursor(NextPageOf(o))
          [] plan.mode = "pageToken" -> EndsCursor(o.obj.token)
          [] OTHER -> \/ o.obj.item.a = <<>>
                      \/ intFromAny(o.obj.total) > 0
                         /\ RunningOffset(Len(served)) >= intFromAny(o.obj.total)

\* C7: at most Cap page fetches; a run that has fetched Cap usable pages without
\* reaching a stop condition fails with the "pagination exceeded" error, which no
\* other failure produces, and writes nothing to the primary output.
C7_PageCap ==
    /\ Len(sent) <= Cap
    /\ FetchAllReturned =>
          (fetchRet.err = ErrExceeded
             <=> (Len(sent) = Cap /\ AllUsable /\ ~StopReached))
    /\ (pagPc = "done" /\ fetchRet.err = ErrExceeded) =>
          (runErr = ErrExceeded /\ stdout = <<>>)

\* C7's case: no cap given, and the 1000th page still asks for more.
C7_Witness ==
    /\ pagPc = "done" /\ maxPagesFlag <= 0
    /\ Len(sent) = 1000 /\ Len(res.Items) = 1000
    /\ runErr = ErrExceeded /\ stdout = <<>>

\* C8: a page whose fetch fails, or whose body is not JSON, not an object or has
\* no array item field, is the last page fetched; fetchAll returns no result and
\* an error, and nothing is written to the primary output.
C8_BadPageAborts ==
    \A i \in 1..Len(served) :
        ~Usable(served[i]) =>
            /\ i = Len(served)
            /\ FetchAllReturned
            /\ ~fetchRet.hasRes /\ fetchRet.err # ""
            /\ stdout = <<>>
            /\ pagPc = "done" => runErr # ""

\* C8's case: two pages with items were fetched, the third is not an object.
C8_Witness ==
    /\ pagPc = "done" /\ Len(served) = 3
    /\ served[3].body = "nonobject"
    /\ Len(res.Items) >= 2
    /\ stdout = <<>> /\ runErr # ""

(* ---- command generation ---- *)
\* The operations the documents declare, each with the names it resolves to.
Declared ==
    { [d |-> d, op |-> GenOpOf(docs[d], m, pth, docs[d].Paths[pth][m]),
       id |-> docs[d].Paths[pth][m].OperationID] :
        <<d, pth, m>> \in { sl \in Slots : /\ sl[2] \in DOMAIN docs[sl[1]].Paths
                                          /\ sl[3] \in DOMAIN docs[sl[1]].Paths[sl[2]] } }

HasId(x) == TrimSpace(x.id) # <<>>

\* Two different operations with an operationId that resolve to the same
\* canonical group name and the same canonical command name.
Conflict(x, y) ==
    /\ x # y /\ HasId(x) /\ HasId(y)
    /\ x.op.groupName = y.op.groupName
    /\ x.op.cmdName = y.op.cmdName

\* The error is the duplicate-command error and names both pairs of a conflict.
NamesAConflict(e) ==
    /\ e.kind = "duplicate command name"
    /\ \E x, y \in Declared :
          /\ Conflict(x, y)
          /\ e.group = x.op.groupName /\ e.cmd = x.op.cmdName
          /\ e.method = x.op.method /\ e.path = x.op.path
          /\ e.prevMethod = y.op.method /\ e.prevPath = y.op.path

\* Every declared operation is a command of its group, and no group has two
\* commands of one name.
AllRegisteredUniquely ==
    /\ \A x \in Declared :
          \E i \in 1..Len(rootCmds) :
              /\ rootCmds[i].group = x.op.groupName
              /\ \E k \in 1..Len(rootCmds[i].cmds) : rootCmds[i].cmds[k].name = x.op.cmdName
    /\ \A i, j \in 1..Len(rootCmds) : rootCmds[i].group = rootCmds[j].group => i = j
    /\ \A i \in 1..Len(rootCmds) :
          \A k, l \in 1..Len(rootCmds[i].cmds) :
              rootCmds[i].cmds[k].name = rootCmds[i].cmds[l].name => k = l

\* C9 as stated: whenever two operations conflict, generation fails with the
\* duplicate-command error naming both; operations that share a command name
\* across groups raise no such error, and a successful generation has registered
\* every operation under a name unique in its group.
C9_DuplicateError ==
    genPc = "done" =>
        /\ (\E x, y \in Declared : Conflict(x, y)) => NamesAConflict(genErr)
        /\ genErr.kind = "duplicate command name" => NamesAConflict(genErr)
        /\ genErr = NoErr => AllRegisteredUniquely

\* C9 amended: whenever two operations conflict, generation fails; the failure is
\* the duplicate-command error naming both unless an operation without an
\* operationId or with an unsupported $ref is declared, whose error can come first.
C9_DuplicateFails ==
    genPc = "done" =>
        /\ (\E x, y \in Declared : Conflict(x, y)) =>
              /\ genErr # NoErr
              /\ (\A x \in Declared : HasId(x) /\ ~x.op.hasRef) => NamesAConflict(genErr)
        /\ genErr.kind = "duplicate command name" => NamesAConflict(genErr)
        /\ genErr = NoErr => AllRegisteredUniquely

\* C9's case: operationIds "aB" and "a-b" under tags "X" and "x" of two methods of
\* one path collide as x/a-b, and the error names both methods.
C9_Witness ==
    /\ genPc = "done"
    /\ genErr.kind = "duplicate command name"
    /\ genErr.group = <<"x">> /\ genErr.cmd = <<"a", "-", "b">>
    /\ genErr.method = "POST" /\ genErr.prevMethod = "GET"
    /\ \E x, y \in Declared : x.id # y.id /\ x.op.tag # y.op.tag /\ Conflict(x, y)

\* C10: whatever order the path maps and method maps are iterated in, the
\* generator returns the same error and leaves the same groups and commands, in
\* the same order and with the same positional arguments.
C10_Deterministic ==
    genPc = "done" =>
        \A ords \in Orders(docs) :
            AddOpenAPICommands(docs, ords) = [err |-> genErr, root |-> rootCmds]

\* C10's case: the first document's paths came out of the map in descending
\* order, and two commands were generated, one with a positional argument.
C10_Witness ==
    /\ genPc = "done" /\ genErr = NoErr
    /\ iterOrder[1].paths = << <<"/", "q">>, <<"/", "p", "/", "{", "i", "d", "}">> >>
    /\ \E i \in 1..Len(rootCmds) :
          \E k \in 1..Len(rootCmds[i].cmds) : rootCmds[i].cmds[k].args = << <<"i", "d">> >>

\* One call of Client.Do alone.
InitDo == DoInit /\ PagIdle /\ GenIdle /\ KebabIdle /\ BoIdle /\ RunIdle /\ SchIdle

SpecDo == InitDo /\ [][DoNext]_vars

\* One --all run of a generated command alone.
InitPag == PagInit /\ DoIdle /\ GenIdle /\ KebabIdle /\ BoIdle /\ RunIdle /\ SchIdle

SpecPag == InitPag /\ [][PagNext]_vars

(* ---- naming ---- *)
\* The characters of a canonical name, hyphens aside.
LowerOrDigit == {"a", "b", "1"}

\* ^[a-z0-9]+(-[a-z0-9]+)*$ or empty.
IsCanonical(s) ==
    \/ s = <<>>
    \/ /\ \A i \in 1..Len(s) : s[i] \in LowerOrDigit \cup {"-"}
       /\ s[1] # "-" /\ s[Len(s)] # "-"
       /\ \A i \in 1..(Len(s) - 1) : ~(s[i] = "-" /\ s[i + 1] = "-")

\* C11: kebabCase is idempotent, and its result is empty or runs of [a-z0-9]
\* separated by single hyphens.
C11_KebabIdempotentCanonical ==
    kebabPc = "done" => (kebabAgain = kebabOut /\ IsCanonical(kebabOut))

\* C11's case: "aBé1" has a camelCase boundary and a non-ASCII letter, and
\* becomes a-b-1.
C11_Witness ==
    /\ kebabPc = "done"
    /\ ident = <<"a", "B", "é", "1">>
    /\ kebabOut = <<"a", "-", "b", "-", "1">>

\* kebabCase alone, over all identifiers up to MaxIdLen characters.
InitKebab == KebabInit /\ DoIdle /\ PagIdle /\ GenIdle /\ BoIdle /\ RunIdle /\ SchIdle

SpecKebab == InitKebab /\ [][KebabNext]_vars

-----------------------------------------------------------------------------
\* Claim C17.  When the request's context is done while Do waits out a retry
\* backoff (the timer has not fired), the step by which Do leaves the wait
\* returns the context's error and no result, and issues no further attempt.
C17_CancelDuringBackoffReturns ==
    [][(doPc = "backoff" /\ ctxDone /\ ~waitOver /\ doPc' # "backoff")
        => /\ doPc' = "returned"
           /\ doErr' = CtxError
           /\ doResult' = NoResult
           /\ attempts' = attempts
           /\ attempt' = attempt
           /\ ~waitOver']_vars

\* Do has returned the context's error after one attempt answered 503, with the
\* timer of the wait never fired.
C17_Witness ==
    /\ doPc = "returned"
    /\ doErr = CtxError
    /\ doResult = NoResult
    /\ ctxDone
    /\ ~waitOver
    /\ attempt = 1
    /\ Len(attempts) = 1
    /\ attempts[1] = [kind |-> "resp", status |-> 503]

\* Claim C18.  Every attempt of Do transmits the complete original request
\* body: what req.Body has left to give at each attempt is all of reqBody,
\* whatever the transport read of it during the attempts before.
C18_EveryAttemptSendsWholeBody ==
    /\ Len(bodiesSent) = Len(attempts)
    /\ \A i \in 1..Len(bodiesSent) : bodiesSent[i] = reqBody

\* A third attempt has been made with a two-byte body, which the transport read
\* to its end.
C18_Witness ==
    /\ reqBody = <<"x", "y">>
    /\ Len(bodiesSent) = 3
    /\ bodiesSent[3] = <<"x", "y">>
    /\ bodyPos = 2
    /\ doPc = "backoff"

\* Claim C20.  When the Retry-After header of a retried response parses as
\* integer seconds (a count of seconds, not negative) or as an HTTP date,
\* retryBackoff returns exactly the wait the header denotes: that many seconds,
\* or the time from now until the date.
C20_RetryAfterWaitExact ==
    LET a == Atoi64(TrimSpace(retryAfter))
        t == ParseTime(retryAfter)
        whole == Div64(Div64(Div64(Abs64(boSleep), 1000).quo, 1000).quo, 1000)
        exact == /\ Div64(Abs64(boSleep), 1000).rem = 0
                 /\ Div64(Div64(Abs64(boSleep), 1000).quo, 1000).rem = 0
                 /\ whole.rem = 0
    IN  boPc = "done" /\ retryAfter # <<>> =>
           /\ (a.ok /\ ~a.neg) => /\ ~IsNeg64(boSleep)
                                  /\ exact
                                  /\ whole.quo = a.mag
           /\ t.ok => boSleep = Millis(t.sec * 1000 - nowMs)

InitBo == BoInit /\ DoIdle /\ PagIdle /\ GenIdle /\ KebabIdle /\ RunIdle /\ SchIdle
SpecBo == InitBo /\ [][BoNext]_vars

InitRun == RunInit /\ PagIdle /\ DoIdle /\ GenIdle /\ KebabIdle /\ BoIdle /\ SchIdle
RunNext ==
    \/ Execute
    \/ Answer
    \/ StartAll
    \/ FetchPage
    \/ SleepElapses
    \/ CancelDuringSleep
    \/ SleepDone
    \/ FinishAll
SpecRun == InitRun /\ [][RunNext]_vars

-----------------------------------------------------------------------------
\* The canonical flag of the binding that has a flag named n; n itself when no
\* binding has.
CanonicalName(bs, n) ==
    IF \E j \in DOMAIN bs : n \in Range(bs[j].flagNames)
    THEN bs[CHOOSE j \in DOMAIN bs : n \in Range(bs[j].flagNames)].flagNames[1]
    ELSE n

\* The command line i with every alias written as its canonical flag.
Canonical(o, i) ==
    [i EXCEPT !.flags = [j \in DOMAIN i.flags |->
                            [i.flags[j] EXCEPT !.name = CanonicalName(Bindings(o), @)]]]

\* Claim C12.  A parameter given through its hidden raw-name alias is handled
\* as if it had been given through the canonical flag, a required parameter
\* included: the command ends as it would with the canonical spelling, with the
\* same error or the same request.
C12_AliasSameAsCanonical ==
    \A y \in {Run(cmdOp, Canonical(cmdOp, inv), rt)} :
        runPc \in {"sent", "all"} \/ (runPc = "done" /\ requests = <<>>) =>
            /\ y.kind = "send" <=> runPc = "sent"
            /\ y.kind = "all" <=> runPc = "all"
            /\ y.kind = "stop" => runErr = y.err
            /\ y.kind = "send" => requests = <<y.req>>
            /\ y.kind = "all" => tmpl = y.req

\* ---- C13 ----

\* The caller set a flag of the binding b on the command line.
SetByCaller(b) ==
    \E j \in DOMAIN inv.flags : inv.flags[j].name \in Range(b.flagNames)

\* The text the caller gave last for b, under either of its flag names.
LastGiven(b) ==
    inv.flags[CHOOSE j \in DOMAIN inv.flags :
                  /\ inv.flags[j].name \in Range(b.flagNames)
                  /\ \A l \in DOMAIN inv.flags :
                        inv.flags[l].name \in Range(b.flagNames) => l <= j].val

\* The value of b on the wire: the text for a string, the decimal for an int.
AsSent(b) == IF b.kind = "int" THEN Itoa(Atoi(LastGiven(b)).val) ELSE LastGiven(b)

\* The parameter of b is in values exactly when the caller set a flag of b, and
\* then with the value the caller gave.
FollowsFlags(values, b) ==
    /\ b.param.Name \in DOMAIN values <=> SetByCaller(b)
    /\ b.param.Name \in DOMAIN values => values[b.param.Name] = <<AsSent(b)>>

\* The query of every request made so far: the one request of a plain run, the
\* page requests under --all.
QueriesSent ==
    IF runPc = "all" THEN sent ELSE [j \in DOMAIN requests |-> requests[j].query]

QueryBindings == bindParams(cmdOp.params, "query")
HeaderBindings == bindParams(cmdOp.params, "header")

\* The parameter fetchAll drives under --all.
IsPaginationParam(b) == runPc = "all" /\ b.param.Name = cmdOp.plan.queryParam

BodyBuilt == build(cmdOp.body, inv.data, inv.form, inv.contentType)

\* The command line passes every check made before do calls body.build.
BuildReached ==
    /\ cmdOp.body.declared
    /\ ParseFlags(Bindings(cmdOp), inv.flags).err = ""
    /\ ~RequiredMissing(Bindings(cmdOp), ParseFlags(Bindings(cmdOp), inv.flags))
    /\ Len(inv.args) = Len(extractPathParams(cmdOp.path))
    /\ ~(cmdOp.requiresAuth /\ TrimSpace(rt.Token) = <<>>)
    /\ ~inv.all

\* C14: when body.build fails (a file of --form that cannot be read, a --form
\* entry that is not key=value, a content type the operation does not declare
\* or the command cannot encode, a required body with neither --form nor
\* --data), the command ends with that error and no request is made.
C14_BodyFailureSendsNothing ==
    BuildReached /\ BodyBuilt.err # "" /\ runPc # "start" =>
        /\ runPc = "done"
        /\ runErr = BodyBuilt.err
        /\ requests = <<>>
        /\ sent = <<>>
        /\ stdout = <<>>

\* The command has ended on the error of a --form key=@file whose file cannot
\* be opened, in the multipart encoding, and no request was made.
C14_Witness ==
    /\ runPc = "done"
    /\ inv.form = [set |-> TRUE, v |-> << <<"f", "=", "@", "z">> >>]
    /\ BuildReached
    /\ runErr = "open: no such file"
    /\ requests = <<>>

\* ---- C15 ----

\* Every request the command has handed to Client.Do: the one of a plain run,
\* and under --all the request built for each page, which differs from tmpl in
\* its query only.
RequestsMade ==
    requests \o [j \in DOMAIN (IF runPc = "all" THEN sent ELSE <<>>) |-> tmpl]

\* The Authorization header of the claim for the tokens of the model:
\* base64("s:") is czo= and base64("ab:") is YWI6.
ExpectedAuth(token, scheme) ==
    IF scheme = "bearer" THEN <<"B", "e", "a", "r", "e", "r", " ">> \o token
    ELSE <<"B", "a", "s", "i", "c", " ">> \o
         (IF token = <<"s">> THEN <<"c", "z", "o", "=">>
          ELSE <<"Y", "W", "I", "6">>)

\* C15: every request made while the token is not blank carries the
\* Authorization header Basic base64(token + ":") under basic and Bearer <token>
\* under bearer, whether or not the operation requires authentication; with a
\* blank token no Authorization header is added.
C15_AuthorizationIffToken ==
    \A j \in DOMAIN RequestsMade :
        IF TrimSpace(rt.Token) # <<>>
        THEN RequestsMade[j].auth = ExpectedAuth(rt.Token, rt.Auth)
        ELSE RequestsMade[j].auth = <<>>

\* A request was made under basic with the token ab on an operation that does
\* not require authentication.
C15_Witness ==
    /\ Len(requests) = 1
    /\ ~cmdOp.requiresAuth
    /\ rt = [Token |-> <<"a", "b">>, Auth |-> "basic"]
    /\ requests[1].auth = <<"B", "a", "s", "i", "c", " ", "Y", "W", "I", "6">>

\* A request was made with a blank token, and carries no Authorization header.
C15_WitnessBlank ==
    /\ Len(requests) = 1
    /\ rt.Token = <<" ">>
    /\ requests[1].auth = <<>>

\* ---- C16 ----

\* The final response of the call had a status >= 400.
ErrorStatus == runPc = "done" /\ answer.k = "resp" /\ answer.status >= 400

\* The status line and the body, as PrintHTTPError writes them.
ErrorPrinted ==
    << <<"HTTP", answer.status>> >> \o
    (IF answer.body = <<>> THEN <<>> ELSE << <<"body", answer.body>> >>)

\* C16 as stated: after a final status >= 400 the status and the body are on
\* the diagnostic stream, the command has failed and the primary output is
\* empty; and no command that failed has written to the primary output.
C16_FailureWritesNothing ==
    /\ ErrorStatus => stderr = ErrorPrinted /\ runErr # "" /\ stdout = <<>>
    /\ RunEnded /\ runErr # "" => stdout = <<>>

\* C16, amended: after a final status >= 400 the command has failed, the
\* primary output is empty, and the status and the body are on the diagnostic
\* stream as far as that stream took them; and a command that failed has
\* written to the primary output only when what failed is a write to the
\* primary output itself.
C16_FailureWritesNothingButFailedWrite ==
    /\ ErrorStatus =>
          /\ runErr = "HTTP error status"
          /\ stdout = <<>>
          /\ answer.w = "ok" => stderr = ErrorPrinted
    /\ RunEnded /\ runErr # "" /\ runErr # ErrWrite => stdout = <<>>

\* The call ended on a 404 with a body: both are on the diagnostic stream, the
\* primary output is empty and the command has failed.
C16_Witness ==
    /\ ErrorStatus
    /\ answer.status = 404
    /\ stderr = << <<"HTTP", 404>>, <<"body", <<"{", "}">>>> >>
    /\ stdout = <<>>
    /\ runErr = "HTTP error status"

\* ---- C19 ----

RECURSIVE Substituted(_, _, _, _)
\* The path template with the i-th argument, as given, in the place of the i-th
\* path parameter.
Substituted(path, names, args, i) ==
    IF i > Len(names) THEN path
    ELSE Substituted(ReplaceAll(path, <<"{">> \o names[i] \o <<"}">>, args[i]),
                     names, args, i + 1)

PathParams == extractPathParams(cmdOp.path)

\* C19: with a number of arguments other than the number of path parameters
\* the command ends with the argument-count error and makes no request; with
\* the right number, the path the server reads off the request is the template
\* with the i-th argument in the place of the i-th path parameter.
C19_ExactArgsInOrder ==
    /\ Len(inv.args) # Len(PathParams) /\ inv.flags = <<>> /\ runPc # "start" =>
          /\ runPc = "done"
          /\ runErr = "accepts n arg(s), received m"
          /\ requests = <<>>
          /\ sent = <<>>
    /\ \A j \in DOMAIN requests :
          /\ Len(inv.args) = Len(PathParams)
          /\ PathUnescape(requests[j].path) =
                 Substituted(cmdOp.path, PathParams, inv.args, 1)

\* ---- C21 ----

\* The offset the caller gave: the integer of the query value of the plan's
\* parameter, 0 when there is none (or none that is an integer).
CallerOffset ==
    IF Atoi(ValuesGet(initialQuery, plan.queryParam)).ok
    THEN Atoi(ValuesGet(initialQuery, plan.queryParam)).val
    ELSE 0

\* The offset fetchAll starts from: the caller's when it is not negative.
StartOffset == IF CallerOffset >= 0 THEN CallerOffset ELSE 0

\* The number of items received on the pages before request i.
ItemsBefore(i) ==
    Cardinality(UNION { {j} \X (1..Len(served[j].obj.item.a)) : j \in 1..(i - 1) })

\* C21 as stated: in offset mode the offset sent on every page request is the
\* offset the caller gave (0 when none) plus the number of items received on
\* all pages before it.  The log of requests only grows, so every request is
\* the latest one in the state that follows it.
C21_OffsetSent ==
    plan.mode = "offset" /\ sent # <<>> =>
        Last(sent)[plan.queryParam] =
            << Itoa(CallerOffset + ItemsBefore(Len(sent))) >>

\* C21, amended: in offset mode the offset sent on every page request is the
\* starting offset plus the number of items received on all pages before it,
\* where the starting offset is the offset the caller gave when that is a
\* non-negative integer and 0 otherwise.
C21_OffsetSentFromNonNegative ==
    plan.mode = "offset" /\ sent # <<>> =>
        Last(sent)[plan.queryParam] =
            << Itoa(StartOffset + ItemsBefore(Len(sent))) >>

\* Three page requests from the caller's offset 2: the pages before the third
\* brought 2 items and 1 item, and the third asks for offset 5.
C21_Witness ==
    /\ plan.mode = "offset"
    /\ ValuesGet(initialQuery, "offset") = <<"2">>
    /\ Len(sent) = 3
    /\ Len(served[1].obj.item.a) = 2
    /\ Len(served[2].obj.item.a) = 1
    /\ sent[1]["offset"] = << <<"2">> >>
    /\ sent[2]["offset"] = << <<"4">> >>
    /\ sent[3]["offset"] = << <<"5">> >>

\* ---- C22 ----

\* C22: every delay fetchAll takes comes after a page fetch that succeeded
\* (none before the first fetch), and once fetchAll has returned every delay
\* taken was followed by another page fetch.
C22_DelayOnlyBetweenFetches ==
    /\ \A j \in DOMAIN sleeps :
          /\ sleeps[j] >= 1
          /\ sleeps[j] <= Len(served)
          /\ Usable(served[sleeps[j]])
    /\ FetchAllReturned => \A j \in DOMAIN sleeps : sleeps[j] < Len(sent)

\* ---- C23 ----

\* C23: when the context of the command is cancelled during the inter-page
\* delay, the wait ends early (fetchAll can leave the delay before its time has
\* passed) and no further page is fetched (do is not called again).
C23_CancelEndsDelay ==
    /\ pagPc = "sleep" /\ cancelledAt >= 0 /\ ~sleepOver => ENABLED SleepDone
    /\ cancelledAt >= 0 => Len(sent) = cancelledAt

InitSchema == SchemaInit /\ DoIdle /\ PagIdle /\ GenIdle /\ KebabIdle /\ BoIdle /\ RunIdle
SpecSchema == InitSchema /\ [][SchNext]_vars

InitDetect == DetectInit /\ DoIdle /\ PagIdle /\ GenIdle /\ KebabIdle /\ BoIdle /\ RunIdle
SpecDetect == InitDetect /\ [][SchNext]_vars


\* ---- C27 ----
RECURSIVE FollowRefs(_, _, _)
\* The schema n references further along from schema, by the document alone:
\* a schema without a reference, or with one the document has no component
\* for, is where the following ends.
FollowRefs(doc, schema, n) ==
    IF n = 0 \/ schema.Ref = "" \/ schema.Ref \notin DOMAIN doc THEN schema
    ELSE FollowRefs(doc, doc[schema.Ref], n - 1)

\* The references from schema on never end: with k components, k + 1 steps
\* along there is still a reference to a component.
RefCycle(doc, schema) ==
    /\ FollowRefs(doc, schema, Cardinality(DOMAIN doc) + 1).Ref # ""
    /\ FollowRefs(doc, schema, Cardinality(DOMAIN doc) + 1).Ref \in DOMAIN doc

\* The schemas on the way of the references from schema.
RefChain(doc, schema) ==
    { FollowRefs(doc, schema, n) : n \in 0..(Cardinality(DOMAIN doc) + 1) }

\* C27: DerefSchema and FlattenSchema return on every document, with
\* components that refer to themselves, to each other, or to themselves
\* through allOf: no call nests deeper than MaxDepth.  When the references
\* from the schema run in a cycle, DerefSchema returns a node of the cycle with
\* its reference still on it (there is no error to return); when they do not,
\* it returns where the references end.
C27_ResolutionTerminates ==
    schPc = "done" =>
        /\ ~derefOut.over
        /\ ~flatOut.over
        /\ RefCycle(schDoc, schEntry) =>
               /\ derefOut.s \in RefChain(schDoc, schEntry)
               /\ derefOut.s.Ref \in DOMAIN schDoc
        /\ ~RefCycle(schDoc, schEntry) =>
               derefOut.s = FollowRefs(schDoc, schEntry, Cardinality(DOMAIN schDoc) + 1)

\* Two components that refer to each other have been resolved from a
\* reference to one of them.
C27_Witness ==
    /\ schPc = "done"
    /\ schEntry = RefTo("A")
    /\ schDoc["A"] = RefTo("B")
    /\ schDoc["B"] = RefTo("A")
    /\ derefOut.s = RefTo("A")
    /\ flatOut.s = RefTo("A")

\* A component that is an allOf of a reference to itself has been flattened:
\* the wrapper comes back, nothing of it merged.
C27_WitnessAllOf ==
    /\ schPc = "done"
    /\ schEntry = RefTo("A")
    /\ schDoc["A"] = AllOfOf(<<RefTo("A")>>)
    /\ flatOut.s = AllOfOf(<<RefTo("A")>>)
    /\ ~flatOut.over


\* ---- C24 ----
\* The type the flattened 200-response schema declares for the property name,
\* "" when the schema has no such property.
DeclaredType(name) ==
    IF hasProp(FlattenSchema(schDoc, schEntry, schOrder).s, name)
    THEN FlattenSchema(schDoc, schEntry, schOrder).s.Properties[name].Type
    ELSE ""

\* C24: detectPaginationPlan returns an offset plan only for an operation
\* with a query parameter offset whose flattened 200-response schema has a
\* property transactions of type array and a property total of type integer
\* or number; a total of another type gives no offset plan.
C24_OffsetPlanNeedsNumericTotal ==
    schPc = "done" /\ planOut # NoPlan /\ planOut.mode = "offset" =>
        /\ "offset" \in schQuery
        /\ hasArrayProp(schDoc, FlattenSchema(schDoc, schEntry, schOrder).s,
                        "transactions", schOrder)
        /\ DeclaredType("total") \in {"integer", "number"}

\* The same without the type of total: the property is there.
C24_OffsetPlanNeedsTotal ==
    schPc = "done" /\ planOut # NoPlan /\ planOut.mode = "offset" =>
        /\ "offset" \in schQuery
        /\ hasArrayProp(schDoc, FlattenSchema(schDoc, schEntry, schOrder).s,
                        "transactions", schOrder)
        /\ hasProp(FlattenSchema(schDoc, schEntry, schOrder).s, "total")


\* ---- C25 ----
RECURSIVE ItemsOfPages(_)
\* The item arrays of the first n pages served, one after the other.
ItemsOfPages(n) ==
    IF n = 0 THEN <<>> ELSE ItemsOfPages(n - 1) \o served[n].obj.item.a

\* The --all run has succeeded: fetchAll returned without error and the
\* output was written whole.
AllSucceeded == pagPc = "done" /\ fetchRet.err = "" /\ runErr = "" /\ served # <<>>

\* The last page's object with the item field replaced by the items of all
\* pages and, in offset mode, the total field by total.
MergedWith(total) ==
    [Last(served).obj EXCEPT
        !.item = [t |-> "array", a |-> ItemsOfPages(Len(served))],
        !.total = IF plan.mode = "offset" THEN total ELSE @]

\* What the run has put out is the merged object m: handed to PrintBody, or,
\* under --ndjson, its items one line each.
PutOut(m) ==
    IF ndjson
    THEN stdout = [i \in 1..Len(m.item.a) |-> <<"line", m.item.a[i]>>]
    ELSE stdout = << <<"body", m>> >>

\* The total of the first page that has one; absent when no page has.
FirstGivenTotal ==
    IF \A i \in 1..Len(served) : served[i].obj.total.t \in {"absent", "null"}
    THEN JAbsent
    ELSE served[CHOOSE i \in 1..Len(served) :
                    /\ served[i].obj.total.t \notin {"absent", "null"}
                    /\ \A j \in 1..(i - 1) :
                          served[j].obj.total.t \in {"absent", "null"}].obj.total

\* C25: after a successful --all run the printer has been given the status
\* and headers of the final page, and the body is the last page's object with
\* the item field replaced by the items of all pages and, in offset mode, the
\* total field set to the total of the first page (a first page without a
\* total leaves the last page's object its own).
C25_MergedOutput ==
    AllSucceeded =>
        /\ fetchRet.res.LastStatus = Last(served).status
        /\ fetchRet.res.LastHeaders = Len(served)
        /\ PutOut(MergedWith(IF served[1].obj.total.t \in {"absent", "null"}
                             THEN Last(served).obj.total
                             ELSE served[1].obj.total))

\* The same with the total of the first page that has one.
C25_MergedOutputFirstGivenTotal ==
    AllSucceeded =>
        /\ fetchRet.res.LastStatus = Last(served).status
        /\ fetchRet.res.LastHeaders = Len(served)
        /\ PutOut(MergedWith(IF FirstGivenTotal = JAbsent THEN Last(served).obj.total
                             ELSE FirstGivenTotal))


\* ---- C26 ----
\* The --content-type value ct is a type the operation declares, or it is the
\* plain application/json and the operation declares application/json with a
\* charset suffix.
DeclaredOverride(ct) ==
    \/ ct \in Range(cmdOp.body.cts)
    \/ /\ ct = "application/json"
       /\ "application/json;charset=utf-8" \in Range(cmdOp.body.cts)

\* The command was run with --content-type and got as far as body.build.
OverrideTried ==
    BuildReached /\ inv.contentType.set /\ runPc = "done"

\* The command has ended on the error e of body.build, nothing sent.
FailedWith(e) ==
    /\ BodyBuilt.err = e
    /\ runErr = e
    /\ requests = <<>>

BlankOverride == inv.contentType.v \in {"", " "}

C26_WitnessRefused ==
    /\ OverrideTried
    /\ inv.contentType.v = "text/plain"
    /\ inv.form = [set |-> TRUE, v |-> << <<"f", "=", "@", "z">> >>]
    /\ FailedWith("unsupported --content-type")


\* ---- C28 ----
\* C28: no step of fetchAll, up to its return and after, changes the plan or
\* the query map it was called with: the page token, the cursor and the
\* offset are written into the private copy q.
C28_PlanAndQueryKept ==
    [][plan' = plan /\ initialQuery' = initialQuery]_pagVars

\* A run has ended after a second request whose query differs from the
\* caller's map: the private copy was written, the caller's map was not.
C28_Witness ==
    /\ pagPc = "done"
    /\ Len(sent) >= 2
    /\ ~q.shared
    /\ q.v # initialQuery
    /\ sent[2] # initialQuery
    /\ plan.queryParam \notin DOMAIN initialQuery

\* The same for a run that failed on its second page.
C28_WitnessFailed ==
    /\ pagPc = "done"
    /\ Len(sent) = 2
    /\ fetchRet.err = "connection refused"
    /\ q.v # initialQuery
    /\ plan.queryParam \notin DOMAIN initialQuery


\* ---- C29 ----
\* Client.Do alone, and the command with Client.Do taken by its outcome.
InitDoRun == InitDo \/ InitRun

DoRunNext ==
    \/ SendFails
    \/ ReadFails
    \/ Respond
    \/ WaitElapses
    \/ BackoffElapsed
    \/ BackoffCancelled
    \/ CtxCancel
    \/ Execute
    \/ Answer
    \/ StartAll
    \/ FetchPage
    \/ SleepElapses
    \/ CancelDuringSleep
    \/ SleepDone
    \/ FinishAll

SpecDoRun == InitDoRun /\ [][DoRunNext]_vars

\* Five attempts were made and each got a response with a status that
\* shouldRetry takes for this method.
AllAttemptsRetryable ==
    /\ Len(attempts) = 5
    /\ \A i \in 1..Len(attempts) :
          /\ attempts[i].kind = "resp"
          /\ shouldRetry(attempts[i].status, method, retryNonIdempotent)

\* C29: when each of the five attempts of Client.Do got a retryable status,
\* Do is not in a wait after the fifth: it has returned the fifth response
\* as a result, without error.  The command treats a result with such a
\* status as one with any status from 400 on: it ends with the HTTP error,
\* the status line on the diagnostic stream and nothing on the primary output.
C29_ExhaustedRetriesReturnLast ==
    /\ AllAttemptsRetryable =>
          /\ doPc = "returned"
          /\ doResult = [isNil |-> FALSE, Status |-> attempts[5].status]
          /\ doErr = ""
    /\ runPc = "done" /\ answer.k = "resp" /\ answer.status >= 400 =>
          /\ runErr = "HTTP error status"
          /\ stdout = <<>>
          /\ answer.w = "ok" => stderr # <<>> /\ stderr[1] = <<"HTTP", answer.status>>

\* Five answers of 503 to a GET: Do has returned the 503 as its result.
C29_Witness ==
    /\ AllAttemptsRetryable
    /\ method = "GET"
    /\ \A i \in 1..Len(attempts) : attempts[i].status = 503
    /\ doPc = "returned"
    /\ doResult.Status = 503

\* The command has been answered with a 503 and has ended with the HTTP error.
C29_WitnessReported ==
    /\ runPc = "done"
    /\ answer.k = "resp"
    /\ answer.status = 503
    /\ runErr = "HTTP error status"


\* ---- C30 ----
\* The operation requires authentication by the document: its own security
\* list when it has one, else the document's, is not empty.
AuthRequired ==
    \/ ~cmdOp.security.nil /\ cmdOp.security.list # <<>>
    \/ cmdOp.security.nil /\ cmdOp.docSecurity # <<>>

\* The command line passes cobra's checks, so that RunE has been called.
RunEReached ==
    /\ runPc # "start"
    /\ ParseFlags(Bindings(cmdOp), inv.flags).err = ""
    /\ ~(inv.all /\ cmdOp.plan.mode = "none")
    /\ ~((inv.data.set \/ inv.form.set \/ inv.contentType.set) /\ ~cmdOp.body.declared)
    /\ Len(inv.args) = Len(extractPathParams(cmdOp.path))
    /\ ~RequiredMissing(Bindings(cmdOp), ParseFlags(Bindings(cmdOp), inv.flags))

BlankToken == TrimSpace(rt.Token) = <<>>

\* C30: a command whose operation requires authentication, run with a blank
\* token, ends with the missing-token error, whatever body.build would have
\* given, and no request is made; a command whose operation does not require
\* it goes on without a token: unless body.build fails, its request is made,
\* without an Authorization header.
C30_MissingTokenStopsFirst ==
    RunEReached /\ BlankToken =>
        /\ AuthRequired =>
              /\ runPc = "done"
              /\ runErr = "missing token"
              /\ requests = <<>>
              /\ sent = <<>>
        /\ ~AuthRequired /\ ~inv.all /\ (cmdOp.body.declared => BodyBuilt.err = "") =>
              /\ runErr # "missing token"
              /\ Len(requests) = 1
              /\ requests[1].auth = <<>>

\* The operation takes the document's requirement, the token is blank and the
\* required body is not given: the command has ended on the missing token,
\* not on the body.
C30_Witness ==
    /\ RunEReached
    /\ BlankToken
    /\ cmdOp.security.nil
    /\ cmdOp.docSecurity # <<>>
    /\ cmdOp.body.declared
    /\ BodyBuilt.err # ""
    /\ runPc = "done"
    /\ runErr = "missing token"
    /\ requests = <<>>

\* The operation sets the document's requirement aside with an empty list and
\* its request has been made without a token.
C30_WitnessOpen ==
    /\ RunEReached
    /\ BlankToken
    /\ cmdOp.security = SecurityList(<<>>)
    /\ cmdOp.docSecurity # <<>>
    /\ Len(requests) = 1
    /\ requests[1].auth = <<>>

=============================================================================
